---- MODULE Spec2Model ----
(***************************************************************************)
(* The example programs of lca-langgraph-essentials (js/src/L1, js/src/L2) *)
(* run on the graph-execution engine they are written against: a          *)
(* super-step scheduler with reducers, a checkpoint store per thread id    *)
(* and the interrupt/resume protocol.                                      *)
(*                                                                         *)
(* The graphs, node functions, reducers and drivers are translated from    *)
(* the sources.  The engine itself (StateGraph.compile / invoke,           *)
(* MemorySaver, interrupt) is an imported package whose code is not part   *)
(* of the repository; it is modelled from the specification's sections     *)
(* 4.1 - 4.4.                                                              *)
(*                                                                         *)
(* Conventions                                                             *)
(*   - a JavaScript string is a TLA+ string; `undefined` as an array       *)
(*     element is the string Undefined;                                    *)
(*   - an optional field of the email state is <<>> (undefined) or <<v>>;  *)
(*   - a partial state update is a record over the fields it writes, the   *)
(*     empty update {} is NoUpdate.                                        *)
(***************************************************************************)
EXTENDS Integers, Sequences, FiniteSets, TLC

VARIABLES
    program,   \* which example program this behaviour runs
    store,     \* MemorySaver: thread id -> sequence of checkpoints (history)
    status,    \* thread id -> "Idle" | "Running" | "Paused" | "Completed"
    active,    \* the client whose invoke() is being awaited, 0 when none
    run,       \* the invocation in progress (super-step loop state)
    trace,     \* thread id -> node invocations since the last fresh invoke
    hist,      \* client -> the invokes it made: input and returned result
    nextId     \* generateId(): the next fresh identifier

vars == <<program, store, status, active, run, trace, hist, nextId>>

-----------------------------------------------------------------------------
(* Bounds of the model *)

\* invoke() calls with a fresh input that one driver makes on its thread
MaxInvokes == 3

\* length of the lists given to the reducer on its own
MaxLen == 2

\* emails of the batch example that are modelled (the example has five)
BatchSize == 2

-----------------------------------------------------------------------------
(* Vocabulary *)

START == "__start__"
END == "__end__"
Undefined == "undefined"
None == <<>>
Some(v) == <<v>>
NoUpdate == [f \in {} |-> {}]

Programs == {"parallel", "conditional", "memory", "interrupt", "email"}

NlistPrograms == {"parallel", "conditional", "memory", "interrupt"}

\* the drivers of the email workflow: one email, and the batch of emails
EmailPrograms == {"email", "batch"}

\* graphs that no example builds, given to the engine to reach the cases
\* the examples never reach: the specification's diamond with a node that
\* asks for confirmation (sections 4.4, 8), and two builds of it that name
\* a node id missing from the registry (section 7)
ScenarioPrograms == {"diamond", "diamond_unknownEdge", "diamond_unknownEnd"}

Last(s) == IF Len(s) = 0 THEN Undefined ELSE s[Len(s)]

-----------------------------------------------------------------------------
(* What a node's step function returns: a partial update, a Command        *)
(* (update and goto), or an interrupt raised at an interrupt() call.       *)
(* `got` is the value an interrupt() call returned inside the node.        *)

Update(u) ==
    [kind |-> "update", update |-> u, goto |-> "", payload |-> None, got |-> None]

Command(u, g) ==
    [kind |-> "command", update |-> u, goto |-> g, payload |-> None, got |-> None]

Interrupt(p) ==
    [kind |-> "interrupt", update |-> NoUpdate, goto |-> "", payload |-> Some(p),
     got |-> None]

Resumed(o, v) == [o EXCEPT !.got = Some(v)]

-----------------------------------------------------------------------------
(* State schemas: the reducer and the default of every channel *)

\* left.reverse() in place of a copy of left: the left list turned round
reducer_leftReversed(left, right) ==
    [i \in 1..Len(left) |-> left[Len(left) + 1 - i]] \o right

\* the incoming list kept in place of the accumulated one
reducer_replace(left, right) == right

\* (left, right) => [...left, ...right]
reducer(left, right) == left \o right

\* a channel declared without a reducer keeps the last value written
LastValue(left, right) == right

Reduce(p, f, left, right) ==
    IF p \in NlistPrograms \cup ScenarioPrograms /\ f = "nlist"
    THEN reducer(left, right)
    ELSE LastValue(left, right)

StateAnnotation == [nlist |-> <<>>]

EmailStateAnnotation ==
    [email_content |-> None, sender_email |-> None, email_id |-> None,
     classification |-> None, ticket_id |-> None, search_results |-> None,
     customer_history |-> None, draft_response |-> None]

Defaults(p) == IF p \in EmailPrograms THEN EmailStateAnnotation ELSE StateAnnotation

-----------------------------------------------------------------------------
(* L1 parallel execution: node functions and graph *)

nodeA_parallel(state) == {Update([nlist |-> <<"A">>])}
nodeB_parallel(state) == {Update([nlist |-> <<"B">>])}
nodeBB(state) == {Update([nlist |-> <<"BB">>])}
nodeC_parallel(state) == {Update([nlist |-> <<"C">>])}
nodeCC(state) == {Update([nlist |-> <<"CC">>])}
nodeD(state) == {Update([nlist |-> <<"D">>])}

\* builder.addEdge('c', 'd') written for builder.addEdge('cc', 'd')
createParallelExecutionGraph_cToD ==
    [nodes |-> <<"a", "b", "bb", "c", "cc", "d">>,
     edges |-> {<<START, "a">>, <<"a", "b">>, <<"a", "c">>, <<"b", "bb">>,
                <<"c", "cc">>, <<"bb", "d">>, <<"c", "d">>, <<"d", END>>},
     checkpointer |-> FALSE]

\* builder.addEdge('a', 'bb') written for builder.addEdge('b', 'bb')
createParallelExecutionGraph_aToBB ==
    [nodes |-> <<"a", "b", "bb", "c", "cc", "d">>,
     edges |-> {<<START, "a">>, <<"a", "b">>, <<"a", "c">>, <<"a", "bb">>,
                <<"c", "cc">>, <<"bb", "d">>, <<"cc", "d">>, <<"d", END>>},
     checkpointer |-> FALSE]

\* the nodes c and cc added before b and bb
createParallelExecutionGraph_cFirst ==
    [nodes |-> <<"a", "c", "cc", "b", "bb", "d">>,
     edges |-> {<<START, "a">>, <<"a", "b">>, <<"a", "c">>, <<"b", "bb">>,
                <<"c", "cc">>, <<"bb", "d">>, <<"cc", "d">>, <<"d", END>>},
     checkpointer |-> FALSE]

\* builder.addEdge('bb', 'cc') added: the two branches joined before d
createParallelExecutionGraph_bbToCC ==
    [nodes |-> <<"a", "b", "bb", "c", "cc", "d">>,
     edges |-> {<<START, "a">>, <<"a", "b">>, <<"a", "c">>, <<"b", "bb">>,
                <<"c", "cc">>, <<"bb", "cc">>, <<"bb", "d">>, <<"cc", "d">>,
                <<"d", END>>},
     checkpointer |-> FALSE]

createParallelExecutionGraph ==
    [nodes |-> <<"a", "b", "bb", "c", "cc", "d">>,
     edges |-> {<<START, "a">>, <<"a", "b">>, <<"a", "c">>, <<"b", "bb">>,
                <<"c", "cc">>, <<"bb", "d">>, <<"cc", "d">>, <<"d", END>>},
     checkpointer |-> FALSE]

-----------------------------------------------------------------------------
(* L1 conditional edges and memory: node a routes with a Command *)

\* the last else branch routed to 'b'
nodeA_elseToB(state) ==
    LET select == Last(state.nlist)
        nextNode == IF select = "b" THEN "b"
                    ELSE IF select = "c" THEN "c"
                    ELSE IF select = "q" THEN END
                    ELSE "b"
    IN  {Command([nlist |-> <<select>>], nextNode)}

nodeA(state) ==
    LET select == Last(state.nlist)
        nextNode == IF select = "b" THEN "b"
                    ELSE IF select = "c" THEN "c"
                    ELSE IF select = "q" THEN END
                    ELSE END
    IN  {Command([nlist |-> <<select>>], nextNode)}

nodeB(state) == {Update([nlist |-> <<"B">>])}

nodeC(state) == {Update([nlist |-> <<"C">>])}

createConditionalEdgesGraph ==
    [nodes |-> <<"a", "b", "c">>,
     edges |-> {<<START, "a">>, <<"b", END>>, <<"c", END>>},
     checkpointer |-> FALSE]

\* builder.compile() without the checkpointer
createMemoryGraph_noCheckpointer ==
    [nodes |-> <<"a", "b", "c">>,
     edges |-> {<<START, "a">>, <<"b", END>>, <<"c", END>>},
     checkpointer |-> FALSE]

createMemoryGraph ==
    [nodes |-> <<"a", "b", "c">>,
     edges |-> {<<START, "a">>, <<"b", END>>, <<"c", END>>},
     checkpointer |-> TRUE]

-----------------------------------------------------------------------------
(* L1 interrupts: node a asks a human about an unexpected input *)

\* the node of the memory example reused: an unexpected input ends the run
nodeA_interrupt_noInterrupt(state, resumes) == nodeA(state)

\* the early return of the refusal left out: the refusal falls through to
\* the common return, which appends select
nodeA_interrupt_fallThrough(state, resumes) ==
    LET select == Last(state.nlist)
    IN  IF select = "b" THEN {Command([nlist |-> <<select>>], "b")}
        ELSE IF select = "c" THEN {Command([nlist |-> <<select>>], "c")}
        ELSE IF select = "q" THEN {Command([nlist |-> <<select>>], END)}
        ELSE IF Len(resumes) = 0
             THEN {Interrupt([message |-> select])}
             ELSE LET admin == resumes[1]
                  IN  IF admin = "continue"
                      THEN {Resumed(Command([nlist |-> <<select>>], "b"), admin)}
                      ELSE {Resumed(Command([nlist |-> <<select>>], END), admin)}

nodeA_interrupt(state, resumes) ==
    LET select == Last(state.nlist)
    IN  IF select = "b" THEN {Command([nlist |-> <<select>>], "b")}
        ELSE IF select = "c" THEN {Command([nlist |-> <<select>>], "c")}
        ELSE IF select = "q" THEN {Command([nlist |-> <<select>>], END)}
        ELSE IF Len(resumes) = 0
             THEN {Interrupt([message |-> select])}
             ELSE LET admin == resumes[1]
                  IN  IF admin = "continue"
                      THEN {Resumed(Command([nlist |-> <<select>>], "b"), admin)}
                      ELSE {Resumed(Command([nlist |-> <<"q">>], END), admin)}

createInterruptGraph ==
    [nodes |-> <<"a", "b", "c">>,
     edges |-> {<<START, "a">>, <<"b", END>>, <<"c", END>>},
     checkpointer |-> TRUE]

-----------------------------------------------------------------------------
(* L2 email workflow.  The language model is an opaque collaborator: a     *)
(* call returns any value of its declared output type, or throws.          *)

Intents == {"question", "bug", "billing", "feature", "complex"}

Urgencies == {"low", "medium", "high", "critical"}

\* structuredLlm.invoke(classificationPrompt)
LlmClassifications ==
    {[intent |-> i, urgency |-> u, topic |-> "topic", summary |-> "summary"] :
        i \in Intents, u \in Urgencies}

FallbackClassification ==
    [intent |-> "question", urgency |-> "medium", topic |-> "general inquiry",
     summary |-> "Unable to classify email automatically"]

\* llm.invoke(draftPrompt).content
LlmDrafts == {"draft"}

ErrorDraft == "Error generating response. Please try again."

\* JavaScript truthiness of an optional string
Truthy(opt) == opt # None /\ opt[1] # ""

readEmail(state) == {Update(NoUpdate)}

\* a failed classification call leaves the state as it was
classifyIntent_noFallback(state) ==
    {Update([classification |-> Some(c)]) : c \in LlmClassifications}
    \cup {Update(NoUpdate)}

classifyIntent(state) ==
    {Update([classification |-> Some(c)]) : c \in LlmClassifications}
    \cup {Update([classification |-> Some(FallbackClassification)])}

searchDocumentation(state) ==
    LET classification ==
            IF state.classification # None THEN state.classification[1]
            ELSE [intent |-> "question", topic |-> "general"]
        searchResults ==
            << <<"Documentation for", classification.intent, classification.topic>>,
               <<"FAQ entry", classification.topic>>,
               <<"Knowledge base article", classification.intent>> >>
    IN  {Update([search_results |-> Some(searchResults)])}

\* the ticket also recorded among the search results
bugTracking_writesResults(state, id) ==
    LET ticketId == <<"BUG", id>>
    IN  {Update([ticket_id |-> Some(ticketId), search_results |-> Some(<<ticketId>>)])}

bugTracking(state, id) ==
    LET ticketId == <<"BUG", id>>
    IN  {Update([ticket_id |-> Some(ticketId)])}

\* needsReview computed from the urgency alone
writeResponse_urgencyOnly(state) ==
    LET classification ==
            IF state.classification # None THEN state.classification[1]
            ELSE [intent |-> "question", urgency |-> "medium"]
        needsReview == \/ classification.urgency = "high"
                       \/ classification.urgency = "critical"
        goto == IF needsReview THEN "human_review" ELSE "send_reply"
    IN  {Command([draft_response |-> Some(content)], goto) : content \in LlmDrafts}
        \cup {Command([draft_response |-> Some(ErrorDraft)], "human_review")}

writeResponse(state) ==
    LET classification ==
            IF state.classification # None THEN state.classification[1]
            ELSE [intent |-> "question", urgency |-> "medium"]
        needsReview == \/ classification.urgency = "high"
                       \/ classification.urgency = "critical"
                       \/ classification.intent = "complex"
        goto == IF needsReview THEN "human_review" ELSE "send_reply"
    IN  {Command([draft_response |-> Some(content)], goto) : content \in LlmDrafts}
        \cup {Command([draft_response |-> Some(ErrorDraft)], "human_review")}

\* A resume value given to human_review: `object` says it is a non-null
\* object, `has_approved` that it has an 'approved' key.
\* the classifications followed through the batch: one that write_response
\* sends on its own, one that it routes to review, and the fallback
BatchClassifications ==
    {[intent |-> "question", urgency |-> "low", topic |-> "topic", summary |-> "summary"],
     [intent |-> "billing", urgency |-> "critical", topic |-> "topic",
      summary |-> "summary"],
     FallbackClassification}

HumanDecisions ==
    {[object |-> TRUE, has_approved |-> TRUE, approved |-> TRUE, edited_response |-> None],
     [object |-> TRUE, has_approved |-> TRUE, approved |-> TRUE,
      edited_response |-> Some("edited")],
     [object |-> TRUE, has_approved |-> TRUE, approved |-> FALSE, edited_response |-> None],
     [object |-> FALSE, has_approved |-> FALSE, approved |-> FALSE,
      edited_response |-> None]}

\* a rejection routed to 'send_reply' like the default branch
humanReview_rejectSends(state, resumes) ==
    IF Len(resumes) = 0
    THEN {Interrupt([email_id |-> state.email_id])}
    ELSE IF resumes[1].object /\ resumes[1].has_approved /\ resumes[1].approved
         THEN {Resumed(Command([draft_response |->
                                   IF Truthy(resumes[1].edited_response)
                                   THEN resumes[1].edited_response
                                   ELSE state.draft_response],
                               "send_reply"), resumes[1])}
         ELSE {Resumed(Command(NoUpdate, "send_reply"), resumes[1])}

\* an approval sent on with the draft as it is, the edited text dropped
humanReview_keepsDraft(state, resumes) ==
    IF Len(resumes) = 0
    THEN {Interrupt([email_id |-> state.email_id])}
    ELSE IF resumes[1].object /\ resumes[1].has_approved /\ ~resumes[1].approved
         THEN {Resumed(Command(NoUpdate, END), resumes[1])}
         ELSE {Resumed(Command(NoUpdate, "send_reply"), resumes[1])}

\* a decision that cannot be read ends the run: the default branch goes to
\* END like a rejection
humanReview_defaultEnds(state, resumes) ==
    IF Len(resumes) = 0
    THEN {Interrupt([email_id |-> state.email_id])}
    ELSE IF resumes[1].object /\ resumes[1].has_approved /\ resumes[1].approved
         THEN {Resumed(Command([draft_response |->
                                   IF Truthy(resumes[1].edited_response)
                                   THEN resumes[1].edited_response
                                   ELSE state.draft_response],
                               "send_reply"), resumes[1])}
         ELSE {Resumed(Command(NoUpdate, END), resumes[1])}

humanReview(state, resumes) ==
    LET classification ==
            IF state.classification # None THEN state.classification[1]
            ELSE [urgency |-> "medium", intent |-> "question"]
    IN  IF Len(resumes) = 0
        THEN {Interrupt([email_id |-> state.email_id,
                         original_email |-> state.email_content,
                         draft_response |-> IF Truthy(state.draft_response)
                                            THEN state.draft_response[1] ELSE "",
                         urgency |-> classification.urgency,
                         intent |-> classification.intent])}
        ELSE LET humanDecision == resumes[1]
             IN  IF humanDecision.object /\ humanDecision.has_approved
                 THEN IF humanDecision.approved
                      THEN LET editedResponse ==
                                   IF Truthy(humanDecision.edited_response)
                                   THEN humanDecision.edited_response
                                   ELSE state.draft_response
                           IN  {Resumed(Command([draft_response |-> editedResponse],
                                                "send_reply"), humanDecision)}
                      ELSE {Resumed(Command(NoUpdate, END), humanDecision)}
                 ELSE {Resumed(Command(NoUpdate, "send_reply"), humanDecision)}

\* the draft cleared once the reply is sent
sendReply_clearsDraft(state) == {Update([draft_response |-> None])}

sendReply(state) == {Update(NoUpdate)}

\* addEdge('search_documentation', 'bug_tracking') written for
\* addEdge('classify_intent', 'bug_tracking')
createEmailWorkflowGraph_serial ==
    [nodes |-> <<"read_email", "classify_intent", "search_documentation",
                 "bug_tracking", "write_response", "human_review", "send_reply">>,
     edges |-> {<<START, "read_email">>, <<"read_email", "classify_intent">>,
                <<"classify_intent", "search_documentation">>,
                <<"search_documentation", "bug_tracking">>,
                <<"search_documentation", "write_response">>,
                <<"bug_tracking", "write_response">>, <<"send_reply", END>>},
     checkpointer |-> TRUE]

createEmailWorkflowGraph ==
    [nodes |-> <<"read_email", "classify_intent", "search_documentation",
                 "bug_tracking", "write_response", "human_review", "send_reply">>,
     edges |-> {<<START, "read_email">>, <<"read_email", "classify_intent">>,
                <<"classify_intent", "search_documentation">>,
                <<"classify_intent", "bug_tracking">>,
                <<"search_documentation", "write_response">>,
                <<"bug_tracking", "write_response">>, <<"send_reply", END>>},
     checkpointer |-> TRUE]

-----------------------------------------------------------------------------
(* The diamond a -> b, a -> c, b -> d of the specification.  Node c calls  *)
(* interrupt() once for each of its questions, in sequence, then branches  *)
(* on the answers with a Command.                                          *)

diamondA(state) == {Update([nlist |-> <<"A">>])}

diamondB(state) == {Update([nlist |-> <<"B">>])}

diamondD(state) == {Update([nlist |-> <<"D">>])}

Asks == <<"confirm?", "sure?">>

\* `resumes` are the values the earlier interrupt() calls of this node got
diamondC(state, resumes) ==
    IF Len(resumes) < Len(Asks)
    THEN {[Interrupt([msg |-> Asks[Len(resumes) + 1]])
              EXCEPT !.got = IF resumes = <<>> THEN None ELSE Some(resumes)]}
    ELSE {Resumed(Command([nlist |-> resumes],
                          IF \A i \in 1..Len(resumes) : resumes[i] = "yes"
                          THEN "d" ELSE END),
                  resumes)}

diamond ==
    [nodes |-> <<"a", "b", "c", "d">>,
     edges |-> {<<START, "a">>, <<"a", "b">>, <<"a", "c">>, <<"b", "d">>,
                <<"d", END>>},
     checkpointer |-> TRUE]

diamond_ends == [n \in {"c"} |-> {"d", END}]

\* the edge b -> d written with a node id that was never added
diamond_unknownEdge ==
    [nodes |-> <<"a", "b", "c", "d">>,
     edges |-> {<<START, "a">>, <<"a", "b">>, <<"a", "c">>, <<"b", "z">>,
                <<"d", END>>},
     checkpointer |-> TRUE]

\* the ends of c declared with a node id that was never added
diamond_unknownEnd_ends == [n \in {"c"} |-> {"z", END}]

-----------------------------------------------------------------------------
(* The compiled graph of each program, and its node registry *)

Graph(p) ==
    CASE p = "parallel" -> createParallelExecutionGraph
      [] p = "conditional" -> createConditionalEdgesGraph
      [] p = "memory" -> createMemoryGraph
      [] p = "interrupt" -> createInterruptGraph
      [] p \in EmailPrograms -> createEmailWorkflowGraph
      [] p = "diamond" -> diamond
      [] p = "diamond_unknownEdge" -> diamond_unknownEdge
      [] p = "diamond_unknownEnd" -> diamond

\* builder.addNode(name, fn): the step function registered under a name.
\* `resumes` are the resume values replayed to the node's interrupt() calls,
\* `id` is what generateId() returns.
NodeFn(p, n, state, resumes, id) ==
    CASE p = "parallel" /\ n = "a" -> nodeA_parallel(state)
      [] p = "parallel" /\ n = "b" -> nodeB_parallel(state)
      [] p = "parallel" /\ n = "bb" -> nodeBB(state)
      [] p = "parallel" /\ n = "c" -> nodeC_parallel(state)
      [] p = "parallel" /\ n = "cc" -> nodeCC(state)
      [] p = "parallel" /\ n = "d" -> nodeD(state)
      [] p \in {"conditional", "memory"} /\ n = "a" -> nodeA(state)
      [] p = "interrupt" /\ n = "a" -> nodeA_interrupt(state, resumes)
      [] p \in {"conditional", "memory", "interrupt"} /\ n = "b" -> nodeB(state)
      [] p \in {"conditional", "memory", "interrupt"} /\ n = "c" -> nodeC(state)
      [] p \in EmailPrograms /\ n = "read_email" -> readEmail(state)
      [] p = "email" /\ n = "classify_intent" -> classifyIntent(state)
      [] p = "batch" /\ n = "classify_intent" ->
            {o \in classifyIntent(state) :
                o.update.classification[1] \in BatchClassifications}
      [] p \in EmailPrograms /\ n = "search_documentation" -> searchDocumentation(state)
      [] p \in EmailPrograms /\ n = "bug_tracking" -> bugTracking(state, id)
      [] p \in EmailPrograms /\ n = "write_response" -> writeResponse(state)
      [] p \in EmailPrograms /\ n = "human_review" -> humanReview(state, resumes)
      [] p \in EmailPrograms /\ n = "send_reply" -> sendReply(state)
      [] p \in ScenarioPrograms /\ n = "a" -> diamondA(state)
      [] p \in ScenarioPrograms /\ n = "b" -> diamondB(state)
      [] p \in ScenarioPrograms /\ n = "c" -> diamondC(state, resumes)
      [] p \in ScenarioPrograms /\ n = "d" -> diamondD(state)
      [] OTHER -> {}

\* addNode(name, fn, { ends: [...] }): the destinations each builder of a
\* program's graph declares for its nodes; a node added without the option
\* is absent from the table
createMemoryGraph_ends == [n \in {} |-> {}]

graph_ends == [n \in {"a"} |-> {"b", "c"}]

createInterruptGraph_ends == [n \in {} |-> {}]

graph_ends_interrupt == [n \in {"a"} |-> {"b", "c", END}]

createConditionalEdgesGraph_ends == [n \in {} |-> {}]

createEmailWorkflowGraph_ends ==
    [n \in {"write_response", "human_review"} |->
        IF n = "write_response" THEN {"human_review", "send_reply"}
        ELSE {"send_reply", END}]

createEmailWorkflowGraph_ends_v2 == [n \in {} |-> {}]

Ends(p) ==
    CASE p = "memory" -> {createMemoryGraph_ends, graph_ends}
      [] p = "interrupt" -> {createInterruptGraph_ends, graph_ends_interrupt}
      [] p = "conditional" -> {createConditionalEdgesGraph_ends}
      [] p \in EmailPrograms ->
            {createEmailWorkflowGraph_ends, createEmailWorkflowGraph_ends_v2}
      [] p = "diamond_unknownEnd" -> {diamond_unknownEnd_ends}
      [] p \in {"diamond", "diamond_unknownEdge"} -> {diamond_ends}
      [] OTHER -> {[n \in {} |-> {}]}

DeclaredEnds(t, n) == IF n \in DOMAIN t THEN t[n] ELSE {}

-----------------------------------------------------------------------------
(* The engine: reducers, frontier, checkpoints *)

Successors(g, n) == {e[2] : e \in {d \in g.edges : d[1] = n}}

Entry(g) == Successors(g, START) \ {END}

\* fold one partial update into a snapshot, channel by channel
ApplyUpdate(p, snap, upd) ==
    [f \in DOMAIN snap |->
        IF f \in DOMAIN upd THEN Reduce(p, f, snap[f], upd[f]) ELSE snap[f]]

\* the writes of a super-step, applied in node declaration order
RECURSIVE MergeInOrder(_, _, _, _)
MergeInOrder(p, snap, order, done) ==
    IF order = <<>> THEN snap
    ELSE LET ws == SelectSeq(done, LAMBDA d : d.node = Head(order))
             merged == IF ws = <<>> THEN snap
                       ELSE ApplyUpdate(p, snap, ws[1].out.update)
         IN  MergeInOrder(p, merged, Tail(order), done)

Targets(g, d) ==
    IF d.out.kind = "command" THEN {d.out.goto} ELSE Successors(g, d.node)

NextFrontier(g, done) ==
    UNION {Targets(g, done[i]) : i \in 1..Len(done)} \ {END}

Interrupts(done) == SelectSeq(done, LAMBDA d : d.out.kind = "interrupt")

loadLatest(tid) == store[tid][Len(store[tid])]

\* a list channel saved as a window of its last four elements
Checkpoint_truncated(tid, values, next, step, resumes, interrupts) ==
    [thread |-> tid,
     values |-> [f \in DOMAIN values |->
                    IF f = "nlist" /\ Len(values[f]) > 4
                    THEN SubSeq(values[f], Len(values[f]) - 3, Len(values[f]))
                    ELSE values[f]],
     next |-> next, seq |-> Len(store[tid]) + 1,
     step |-> step, resumes |-> resumes, interrupts |-> interrupts]

Checkpoint(tid, values, next, step, resumes, interrupts) ==
    [thread |-> tid, values |-> values, next |-> next, seq |-> Len(store[tid]) + 1,
     step |-> step, resumes |-> resumes, interrupts |-> interrupts]

\* loadLatest(threadId) -> Checkpoint | none
loadLatestOrNone(tid) == IF store[tid] = <<>> THEN None ELSE Some(loadLatest(tid))

\* the checkpoint written under every thread id of the store
save_everyThread(tid, ck) ==
    IF Graph(program).checkpointer
    THEN [t \in DOMAIN store |-> Append(store[t], ck)]
    ELSE store

\* the new checkpoint written over the thread's history
save_keepLatest(tid, ck) ==
    IF Graph(program).checkpointer
    THEN [store EXCEPT ![tid] = <<ck>>]
    ELSE store

save(tid, ck) ==
    IF Graph(program).checkpointer
    THEN [store EXCEPT ![tid] = Append(@, ck)]
    ELSE store

NoRun ==
    [tid |-> "", cmd |-> "", arg |-> None, snap |-> None, frontier |-> {},
     pending |-> {}, done |-> <<>>, step |-> 0, resumes |-> <<>>]
-----------------------------------------------------------------------------
(* The drivers: who invokes which graph with what, on which thread id *)

Clients(p) ==
    IF p = "memory" THEN {1, 2}
    ELSE IF p = "batch" THEN 1..BatchSize
    ELSE {1}

thread1Config == "thread-1"

\* the second config written with the first thread's id
thread2Config_sameThread == "thread-1"

thread2Config == "thread-2"

\* const threadId = generateId(): the id of the batch's i-th email
threadId(i) == <<"id_1", "id_2", "id_3", "id_4", "id_5">>[i]

\* config.configurable.thread_id of a client's invokes ("" without a config)
ThreadConfig(p, c) ==
    CASE p = "memory" -> IF c = 1 THEN thread1Config ELSE thread2Config
      [] p = "interrupt" -> "1"
      [] p = "email" -> "customer_123"
      [] p = "batch" -> threadId(c)
      [] p \in ScenarioPrograms -> "t1"
      [] OTHER -> ""

ThreadIds(p) == {ThreadConfig(p, c) : c \in Clients(p)}

\* what getUserInput can return: the three commands and an unexpected text
UserInputs == {"b", "c", "q", "x"}

\* the five emails of the batch example
emailContent ==
    <<"I was charged two times", "available in blue?", "how long the sale is on?",
      "The tire won't stay on the car!", "what is the new rate?">>

Inputs(p, c) ==
    CASE p = "parallel" -> {[nlist |-> <<>>], [nlist |-> <<"Initial String:">>]}
      [] p = "email" ->
            {[email_content |-> Some("I was charged twice"),
              sender_email |-> Some("customer@example.com"),
              email_id |-> Some("email_123")]}
      [] p = "batch" ->
            {[email_content |-> Some(emailContent[c]),
              sender_email |-> Some("customer@example.com"),
              email_id |-> Some(<<"email_0", "email_1", "email_2", "email_3",
                                  "email_4">>[c])]}
      [] p \in ScenarioPrograms -> {[nlist |-> <<>>]}
      [] OTHER -> {[nlist |-> <<u>>] : u \in UserInputs}

\* what the human can answer to "Continue?"
HumanAnswers == {"continue", "stop"}

LastResult(c) == hist[c][Len(hist[c])]

FreshCount(c) == Len(SelectSeq(hist[c], LAMBDA h : h.cmd = "input"))

\* every email gets a thread of its own; the L1 drivers invoke repeatedly
InvokeLimit(p) == IF p \in EmailPrograms \cup ScenarioPrograms THEN 1 ELSE MaxInvokes

\* what the caller can answer to a question of the diamond's node c
Answers == {"yes", "no"}

\* an invoke or a build threw: the error leaves the driver's loop
Failed(c) == hist[c] # <<>> /\ LastResult(c).kind = "error"

\* the node registry of a program's graph
Registry(p) == {Graph(p).nodes[i] : i \in 1..Len(Graph(p).nodes)}

\* every destination some addNode of the program declares in its ends
DeclaredDestinations(p) == UNION {UNION {t[n] : n \in DOMAIN t} : t \in Ends(p)}

\* the node ids that the edges and the declared ends of a program's graph
\* name and the registry lacks
UnknownDestinations(p) ==
    ({e[2] : e \in Graph(p).edges} \cup DeclaredDestinations(p))
        \ (Registry(p) \cup {END})

\* compile() validates edges only
Compiles_edgesOnly(p) ==
    \A e \in Graph(p).edges : e[2] \in Registry(p) \cup {END}

\* builder.compile(): the graph is validated against the node registry
Compiles(p) == UnknownDestinations(p) = {}

\* every result that is not an error taken for an interrupt
hasInterrupt_anyResult(result) == result.kind # "error"

\* hasInterrupt(result)
hasInterrupt(result) == result.kind = "interrupt"

\* if (hasInterrupt(result)) { ... resume ... }: the driver answers a pending
\* interrupt before anything else
AwaitingResume(c) == hist[c] # <<>> /\ hasInterrupt(LastResult(c))

\* the first element of the list tested in place of the last
LoopExit_firstElement(c) ==
    /\ program \in {"conditional", "memory", "interrupt"}
    /\ hist[c] # <<>>
    /\ ~hasInterrupt(LastResult(c))
    /\ LastResult(c).values.nlist # <<>>
    /\ LastResult(c).values.nlist[1] = "q"

\* result.nlist[result.nlist.length - 1] === 'q': the driver's loop ends
LoopExit(c) ==
    /\ program \in {"conditional", "memory", "interrupt"}
    /\ hist[c] # <<>>
    /\ ~hasInterrupt(LastResult(c))
    /\ Last(LastResult(c).values.nlist) = "q"

-----------------------------------------------------------------------------
(* Actions *)

Init ==
    /\ program \in Programs
    /\ store = [t \in ThreadIds(program) |-> <<>>]
    /\ status = [t \in ThreadIds(program) |-> "Idle"]
    /\ active = 0
    /\ run = NoRun
    /\ trace = [t \in ThreadIds(program) |-> <<>>]
    /\ hist = [c \in Clients(program) |-> <<>>]
    /\ nextId = 1

\* the engine starts a run: the input is folded into the thread's latest
\* snapshot (the defaults without one) and the entry nodes are scheduled
StartRun(tid, input) ==
    LET g == Graph(program)
        base == IF g.checkpointer /\ store[tid] # <<>>
                THEN loadLatest(tid).values
                ELSE Defaults(program)
    IN  [tid |-> tid, cmd |-> "input", arg |-> Some(input),
         snap |-> ApplyUpdate(program, base, input),
         frontier |-> Entry(g), pending |-> Entry(g), done |-> <<>>,
         step |-> 1, resumes |-> <<>>]

\* the newest resume value put in front of the replay log
ResumeRun_newestFirst(tid, v) ==
    [tid |-> tid, cmd |-> "resume", arg |-> Some(v),
     snap |-> loadLatest(tid).values,
     frontier |-> loadLatest(tid).next, pending |-> loadLatest(tid).next,
     done |-> <<>>, step |-> loadLatest(tid).step,
     resumes |-> <<v>> \o loadLatest(tid).resumes]

\* the engine resumes a paused thread: the frontier and the snapshot of the
\* interrupted step are loaded and the resume value joins the replay log
ResumeRun(tid, v) ==
    [tid |-> tid, cmd |-> "resume", arg |-> Some(v),
     snap |-> loadLatest(tid).values,
     frontier |-> loadLatest(tid).next, pending |-> loadLatest(tid).next,
     done |-> <<>>, step |-> loadLatest(tid).step,
     resumes |-> Append(loadLatest(tid).resumes, v)]

Paused(tid) == store[tid] # <<>> /\ loadLatest(tid).interrupts # <<>>

\* graph.invoke(inputState, config)
Invoke(c, input) ==
    /\ active = 0
    /\ Compiles(program)
    /\ ~Failed(c)
    /\ ~AwaitingResume(c)
    /\ ~LoopExit(c)
    /\ FreshCount(c) < InvokeLimit(program)
    /\ active' = c
    /\ run' = StartRun(ThreadConfig(program, c), input)
    /\ status' = [status EXCEPT ![ThreadConfig(program, c)] = "Running"]
    /\ trace' = [trace EXCEPT ![ThreadConfig(program, c)] = <<>>]
    /\ UNCHANGED <<program, store, hist, nextId>>

\* the interrupt's message passed on in place of the human's answer
ResumeCommand_message(human) == "Continue?"

\* new Command({ resume: human })
ResumeCommand(human) == human

\* the human's answer invoked as a new input in place of a resume Command
ResumeInterrupt_plainInvoke(c, human) ==
    /\ program = "interrupt"
    /\ active = 0
    /\ AwaitingResume(c)
    /\ active' = c
    /\ run' = StartRun(ThreadConfig(program, c), [nlist |-> <<human>>])
    /\ status' = [status EXCEPT ![ThreadConfig(program, c)] = "Running"]
    /\ trace' = [trace EXCEPT ![ThreadConfig(program, c)] = <<>>]
    /\ UNCHANGED <<program, store, hist, nextId>>

\* the resume sent after every result, without the test of hasInterrupt
ResumeInterrupt_unchecked(c, human) ==
    /\ program = "interrupt"
    /\ active = 0
    /\ hist[c] # <<>>
    /\ active' = c
    /\ run' = [ResumeRun(ThreadConfig(program, c), ResumeCommand(human))
                  EXCEPT !.arg = Some(human)]
    /\ status' = [status EXCEPT ![ThreadConfig(program, c)] = "Running"]
    /\ UNCHANGED <<program, store, trace, hist, nextId>>

\* L1 interrupts driver: graph.invoke(new Command({ resume: human }), config)
ResumeInterrupt(c, human) ==
    /\ program = "interrupt"
    /\ active = 0
    /\ AwaitingResume(c)
    /\ Paused(ThreadConfig(program, c))
    /\ active' = c
    /\ run' = [ResumeRun(ThreadConfig(program, c), ResumeCommand(human))
                  EXCEPT !.arg = Some(human)]
    /\ status' = [status EXCEPT ![ThreadConfig(program, c)] = "Running"]
    /\ UNCHANGED <<program, store, trace, hist, nextId>>

\* the initial state invoked again in place of a resume Command
ResumeEmail_plainInvoke(c, decision) ==
    /\ program = "email"
    /\ active = 0
    /\ AwaitingResume(c)
    /\ active' = c
    /\ run' = StartRun(ThreadConfig(program, c), LastResult(c).arg[1])
    /\ status' = [status EXCEPT ![ThreadConfig(program, c)] = "Running"]
    /\ trace' = [trace EXCEPT ![ThreadConfig(program, c)] = <<>>]
    /\ UNCHANGED <<program, store, hist, nextId>>

\* L2 email drivers: app.invoke(new Command({ resume: decision }), config)
ResumeEmail(c, decision) ==
    /\ program = "email"
    /\ active = 0
    /\ AwaitingResume(c)
    /\ Paused(ThreadConfig(program, c))
    /\ active' = c
    /\ run' = ResumeRun(ThreadConfig(program, c), decision)
    /\ status' = [status EXCEPT ![ThreadConfig(program, c)] = "Running"]
    /\ UNCHANGED <<program, store, trace, hist, nextId>>

\* the caller of the diamond answers the question it was returned
ResumeDiamond(c, v) ==
    /\ program \in ScenarioPrograms
    /\ active = 0
    /\ AwaitingResume(c)
    /\ Paused(ThreadConfig(program, c))
    /\ active' = c
    /\ run' = ResumeRun(ThreadConfig(program, c), v)
    /\ status' = [status EXCEPT ![ThreadConfig(program, c)] = "Running"]
    /\ UNCHANGED <<program, store, trace, hist, nextId>>

\* UnknownDestinationError: the build of a graph that names a missing node
\* id throws, and the caller never gets a graph to invoke
BuildRejected(c) ==
    /\ active = 0
    /\ hist[c] = <<>>
    /\ ~Compiles(program)
    /\ hist' = [hist EXCEPT ![c] =
                   <<[cmd |-> "compile", arg |-> None, kind |-> "error", values |-> None,
                      payload |-> <<[error |-> "UnknownDestinationError"]>>]>>]
    /\ UNCHANGED <<program, store, status, active, run, trace, nextId>>

\* the resume started as a run from the entry nodes
ResumeUnpaused_freshRun(c, v) ==
    /\ active = 0
    /\ Compiles(program)
    /\ ~Failed(c)
    /\ ~Paused(ThreadConfig(program, c))
    /\ active' = c
    /\ run' = [StartRun(ThreadConfig(program, c), NoUpdate)
                  EXCEPT !.cmd = "resume", !.arg = Some(v)]
    /\ status' = [status EXCEPT ![ThreadConfig(program, c)] = "Running"]
    /\ trace' = [trace EXCEPT ![ThreadConfig(program, c)] = <<>>]
    /\ UNCHANGED <<program, store, hist, nextId>>

\* MissingCheckpointError: a resume command for a thread id with no paused
\* checkpoint is answered with a usage error and nothing runs
ResumeUnpaused(c, v) ==
    /\ active = 0
    /\ Compiles(program)
    /\ ~Failed(c)
    /\ ~Paused(ThreadConfig(program, c))
    /\ hist' = [hist EXCEPT ![c] =
                   Append(@, [cmd |-> "resume", arg |-> Some(v), kind |-> "error",
                              values |-> None,
                              payload |-> <<[error |-> "MissingCheckpointError",
                                             thread |-> ThreadConfig(program, c)]>>])]
    /\ UNCHANGED <<program, store, status, active, run, trace, nextId>>

\* the failed step saved like a finished one before the error is raised
FailNode_persist(n) ==
    /\ active # 0
    /\ n \in run.pending
    /\ Interrupts(run.done) = <<>>
    /\ trace' = [trace EXCEPT ![run.tid] =
                    Append(@, [node |-> n, step |-> run.step, input |-> run.snap,
                               kind |-> "error", goto |-> "", got |-> None])]
    /\ hist' = [hist EXCEPT ![active] =
                   Append(@, [cmd |-> run.cmd, arg |-> run.arg, kind |-> "error",
                              values |-> None,
                              payload |-> <<[error |-> "NodeExecutionError",
                                             thread |-> run.tid, node |-> n,
                                             step |-> run.step]>>])]
    /\ store' = save(run.tid,
                     Checkpoint(run.tid,
                                MergeInOrder(program, run.snap, Graph(program).nodes,
                                             run.done),
                                run.pending \ {n}, run.step + 1, <<>>, <<>>))
    /\ status' = [status EXCEPT ![run.tid] = "Idle"]
    /\ active' = 0
    /\ run' = NoRun
    /\ UNCHANGED <<program, nextId>>

\* NodeExecutionError: a step function throws; the error goes to the caller
\* of invoke with the thread id, the node id and the step, and nothing of
\* the failed step is saved
FailNode(n) ==
    /\ active # 0
    /\ n \in run.pending
    /\ Interrupts(run.done) = <<>>
    /\ trace' = [trace EXCEPT ![run.tid] =
                    Append(@, [node |-> n, step |-> run.step, input |-> run.snap,
                               kind |-> "error", goto |-> "", got |-> None])]
    /\ hist' = [hist EXCEPT ![active] =
                   Append(@, [cmd |-> run.cmd, arg |-> run.arg, kind |-> "error",
                              values |-> None,
                              payload |-> <<[error |-> "NodeExecutionError",
                                             thread |-> run.tid, node |-> n,
                                             step |-> run.step]>>])]
    /\ status' = [status EXCEPT ![run.tid] = "Idle"]
    /\ active' = 0
    /\ run' = NoRun
    /\ UNCHANGED <<program, store, nextId>>

\* one node of the frontier runs on the snapshot of the step's start
RunNode(n) ==
    /\ active # 0
    /\ n \in run.pending
    /\ Interrupts(run.done) = <<>>
    /\ \E o \in NodeFn(program, n, run.snap, run.resumes, nextId) :
        /\ run' = [run EXCEPT !.pending = @ \ {n},
                              !.done = Append(@, [node |-> n, out |-> o])]
        /\ trace' = [trace EXCEPT ![run.tid] =
                        Append(@, [node |-> n, step |-> run.step, input |-> run.snap,
                                   kind |-> o.kind, goto |-> o.goto, got |-> o.got])]
    /\ nextId' = IF program \in EmailPrograms /\ n = "bug_tracking" THEN nextId + 1 ELSE nextId
    /\ UNCHANGED <<program, store, status, active, hist>>

\* every node of the step has returned and more nodes follow
CommitStep ==
    LET g == Graph(program)
        merged == MergeInOrder(program, run.snap, g.nodes, run.done)
        next == NextFrontier(g, run.done)
    IN  /\ active # 0
        /\ run.pending = {} /\ run.done # <<>>
        /\ Interrupts(run.done) = <<>>
        /\ next # {}
        /\ store' = save(run.tid, Checkpoint(run.tid, merged, next, run.step + 1,
                                             <<>>, <<>>))
        /\ run' = [run EXCEPT !.snap = merged, !.frontier = next, !.pending = next,
                              !.done = <<>>, !.step = @ + 1, !.resumes = <<>>]
        /\ UNCHANGED <<program, status, active, trace, hist, nextId>>

\* the next frontier is empty: invoke returns the final snapshot
Complete ==
    LET g == Graph(program)
        merged == MergeInOrder(program, run.snap, g.nodes, run.done)
    IN  /\ active # 0
        /\ run.pending = {} /\ run.done # <<>>
        /\ Interrupts(run.done) = <<>>
        /\ NextFrontier(g, run.done) = {}
        /\ store' = save(run.tid, Checkpoint(run.tid, merged, {}, run.step + 1,
                                             <<>>, <<>>))
        /\ status' = [status EXCEPT ![run.tid] = "Completed"]
        /\ hist' = [hist EXCEPT ![active] =
                       Append(@, [cmd |-> run.cmd, arg |-> run.arg, kind |-> "final",
                                  values |-> merged, payload |-> <<>>])]
        /\ active' = 0
        /\ run' = NoRun
        /\ UNCHANGED <<program, trace, nextId>>

\* the updates of the nodes that returned before the interrupt are merged
\* into the snapshot that is saved and returned
Pause_commitSiblings ==
    LET payloads == [i \in 1..Len(Interrupts(run.done)) |->
                        Interrupts(run.done)[i].out.payload[1]]
        merged == MergeInOrder(program, run.snap, Graph(program).nodes, run.done)
    IN  /\ active # 0
        /\ Interrupts(run.done) # <<>>
        /\ store' = save(run.tid, Checkpoint(run.tid, merged, run.frontier, run.step,
                                             run.resumes, payloads))
        /\ status' = [status EXCEPT ![run.tid] = "Paused"]
        /\ hist' = [hist EXCEPT ![active] =
                       Append(@, [cmd |-> run.cmd, arg |-> run.arg, kind |-> "interrupt",
                                  values |-> merged, payload |-> payloads])]
        /\ active' = 0
        /\ run' = NoRun
        /\ UNCHANGED <<program, trace, nextId>>

\* a node raised an interrupt: nothing of the step is committed, the
\* frontier in progress is saved and invoke returns the payloads
Pause ==
    LET payloads == [i \in 1..Len(Interrupts(run.done)) |->
                        Interrupts(run.done)[i].out.payload[1]]
    IN  /\ active # 0
        /\ Interrupts(run.done) # <<>>
        /\ store' = save(run.tid, Checkpoint(run.tid, run.snap, run.frontier, run.step,
                                             run.resumes, payloads))
        /\ status' = [status EXCEPT ![run.tid] = "Paused"]
        /\ hist' = [hist EXCEPT ![active] =
                       Append(@, [cmd |-> run.cmd, arg |-> run.arg, kind |-> "interrupt",
                                  values |-> run.snap, payload |-> payloads])]
        /\ active' = 0
        /\ run' = NoRun
        /\ UNCHANGED <<program, trace, nextId>>

Next ==
    \/ \E c \in Clients(program) : \E input \in Inputs(program, c) : Invoke(c, input)
    \/ \E c \in Clients(program) : \E human \in HumanAnswers : ResumeInterrupt(c, human)
    \/ \E c \in Clients(program) : \E decision \in HumanDecisions : ResumeEmail(c, decision)
    \/ \E n \in run.pending : RunNode(n)
    \/ CommitStep
    \/ Complete
    \/ Pause

Spec == Init /\ [][Next]_vars

\* The engine under everything its callers and its nodes can do to it: the
\* examples and the diamond, builds that fail, nodes that throw and resume
\* commands that no interrupt preceded.
EngineInit ==
    /\ program \in (Programs \ {"memory"}) \cup ScenarioPrograms
    /\ store = [t \in ThreadIds(program) |-> <<>>]
    /\ status = [t \in ThreadIds(program) |-> "Idle"]
    /\ active = 0
    /\ run = NoRun
    /\ trace = [t \in ThreadIds(program) |-> <<>>]
    /\ hist = [c \in Clients(program) |-> <<>>]
    /\ nextId = 1

EngineNext ==
    \/ Next
    \/ \E c \in Clients(program) : \E v \in Answers : ResumeDiamond(c, v)
    \/ \E c \in Clients(program) : BuildRejected(c)
    \/ \E c \in Clients(program) : \E v \in Answers : ResumeUnpaused(c, v)
    \/ \E n \in run.pending : FailNode(n)

EngineSpec == EngineInit /\ [][EngineNext]_vars

-----------------------------------------------------------------------------
(* Properties *)

Range(s) == {s[i] : i \in 1..Len(s)}

IsPrefix(s, t) == Len(s) <= Len(t) /\ SubSeq(t, 1, Len(s)) = s

\* the invocations of node n on a thread since its last fresh invoke
NodeRuns(tid, n) == SelectSeq(trace[tid], LAMBDA e : e.node = n)

\* the argument of the invoke a client is awaiting or was last returned
InvokeArg(c) == IF active = c THEN run.arg[1] ELSE LastResult(c).arg[1]

\* x and y occur together in s, every x before every y
OrderedPair(s, x, y) ==
    /\ (x \in Range(s)) <=> (y \in Range(s))
    /\ \A i, j \in 1..Len(s) : s[i] = x /\ s[j] = y => i < j

\* every snapshot a node, the engine or a caller has seen on a thread
SeenSnapshots(c) ==
    {trace[ThreadConfig(program, c)][i].input :
        i \in 1..Len(trace[ThreadConfig(program, c)])}
    \cup {hist[c][i].values : i \in 1..Len(hist[c])}
    \cup (IF active = c THEN {run.snap} ELSE {})

ParallelThread == ThreadConfig("parallel", 1)

\* C1: in the parallel-execution graph one invoke with nlist = I runs each
\* of a, b, bb, c, cc, d exactly once; d runs in a super-step after those
\* of bb and cc, on the snapshot that holds both their writes; the final
\* nlist is I followed by A, B, C, BB, CC, D.
C1_ParallelDiamond ==
    program = "parallel" /\ trace[ParallelThread] # <<>> =>
        LET tr == trace[ParallelThread]
            I == InvokeArg(1).nlist
            nodes == Range(createParallelExecutionGraph.nodes)
        IN  /\ \A n \in nodes : Len(NodeRuns(ParallelThread, n)) <= 1
            /\ \A i \in 1..Len(tr) : tr[i].node = "d" =>
                   /\ \E j \in 1..Len(tr) : tr[j].node = "bb" /\ tr[j].step < tr[i].step
                   /\ \E j \in 1..Len(tr) : tr[j].node = "cc" /\ tr[j].step < tr[i].step
                   /\ tr[i].input.nlist = I \o <<"A", "B", "C", "BB", "CC">>
            /\ active = 0 =>
                   /\ \A n \in nodes : Len(NodeRuns(ParallelThread, n)) = 1
                   /\ ~hasInterrupt(LastResult(1))
                   /\ LastResult(1).values.nlist
                          = I \o <<"A", "B", "C", "BB", "CC", "D">>

C1_Witness ==
    /\ program = "parallel"
    /\ active = 0
    /\ hist[1] # <<>>
    /\ Len(trace[ParallelThread]) = 6
    /\ LastResult(1).values.nlist
           = <<"Initial String:", "A", "B", "C", "BB", "CC", "D">>

\* C2: every node of a super-step reads the snapshot of the step's start:
\* b and c both receive I ++ [A], bb and cc both receive I ++ [A, B, C],
\* whichever of the two returned first.
C2_StepStartSnapshot ==
    program = "parallel" /\ trace[ParallelThread] # <<>> =>
        LET tr == trace[ParallelThread]
            I == InvokeArg(1).nlist
        IN  \A i \in 1..Len(tr) :
                /\ tr[i].node \in {"b", "c"} => tr[i].input.nlist = I \o <<"A">>
                /\ tr[i].node \in {"bb", "cc"} =>
                       tr[i].input.nlist = I \o <<"A", "B", "C">>

C2_Witness ==
    /\ program = "parallel"
    /\ Len(trace[ParallelThread]) = 5
    /\ trace[ParallelThread][2].node = "c"
    /\ trace[ParallelThread][3].node = "b"
    /\ trace[ParallelThread][4].node = "cc"
    /\ trace[ParallelThread][5].node = "bb"
    /\ trace[ParallelThread][5].input.nlist = <<"Initial String:", "A", "B", "C">>

\* C3: concurrent writes to the append-reduced nlist are merged in node
\* declaration order for every completion order: in every snapshot B comes
\* before C and BB before CC.
C3_DeclarationOrder ==
    program = "parallel" =>
        \A s \in SeenSnapshots(1) :
            /\ OrderedPair(s.nlist, "B", "C")
            /\ OrderedPair(s.nlist, "BB", "CC")

C3_Witness ==
    /\ program = "parallel"
    /\ active = 0
    /\ Len(trace[ParallelThread]) = 6
    /\ trace[ParallelThread][2].node = "c"
    /\ trace[ParallelThread][3].node = "b"
    /\ trace[ParallelThread][4].node = "cc"
    /\ trace[ParallelThread][5].node = "bb"
    /\ OrderedPair(LastResult(1).values.nlist, "B", "C")
    /\ OrderedPair(LastResult(1).values.nlist, "BB", "CC")
    /\ "CC" \in Range(LastResult(1).values.nlist)

\* the outcome of a deterministic node
TheOutcome(p, n, snap, resumes) == CHOOSE o \in NodeFn(p, n, snap, resumes, 0) : TRUE

\* a graph run from a frontier to its end in one go, on no thread and with
\* no checkpoint, the resume values at hand from the start
RECURSIVE DirectRun(_, _, _, _)
DirectRun(p, snap, frontier, resumes) ==
    IF frontier = {} THEN snap
    ELSE LET order == SelectSeq(Graph(p).nodes, LAMBDA n : n \in frontier)
             done == [i \in 1..Len(order) |->
                         [node |-> order[i],
                          out |-> TheOutcome(p, order[i], snap, resumes)]]
         IN  DirectRun(p, MergeInOrder(p, snap, Graph(p).nodes, done),
                       NextFrontier(Graph(p), done), resumes)

\* what a sequence of invokes yields on a thread nobody else uses
RECURSIVE Alone(_, _)
Alone(p, inputs) ==
    IF inputs = <<>> THEN Defaults(p)
    ELSE DirectRun(p,
                   ApplyUpdate(p, Alone(p, SubSeq(inputs, 1, Len(inputs) - 1)),
                               inputs[Len(inputs)]),
                   Entry(Graph(p)), <<>>)

\* the inputs of a client's first k invokes
InputsOf(c, k) == [i \in 1..k |-> hist[c][i].arg[1]]

\* C4: in the multi-thread memory example every interleaving of the invokes
\* on 'thread-1' and 'thread-2' leaves each thread's snapshot, and every
\* result returned on it, equal to what the same invokes yield on that
\* thread alone.
C4_ThreadIsolation ==
    program = "memory" =>
        \A c \in Clients(program) :
            /\ \A k \in 1..Len(hist[c]) :
                   hist[c][k].values = Alone(program, InputsOf(c, k))
            /\ active # c /\ hist[c] # <<>> =>
                   loadLatest(ThreadConfig(program, c)).values
                       = Alone(program, InputsOf(c, Len(hist[c])))

C4_Witness ==
    /\ program = "memory"
    /\ active = 2
    /\ Len(hist[1]) = 2 /\ Len(hist[2]) = 1
    /\ loadLatest(thread1Config).values.nlist = <<"b", "b", "B", "c", "c", "C">>
    /\ loadLatest(thread2Config).values.nlist = <<"c", "c", "C">>
    /\ run.snap.nlist = <<"c", "c", "C", "b">>

\* C5: with the checkpointer the state is kept between the invokes on one
\* thread id: the nlist an invoke returns extends the nlist the invoke
\* before it returned on that thread.
C5_StatePreserved ==
    program = "memory" =>
        \A c \in Clients(program) : \A k \in 1..(Len(hist[c]) - 1) :
            /\ IsPrefix(hist[c][k].values.nlist, hist[c][k + 1].values.nlist)
            /\ Len(hist[c][k].values.nlist) < Len(hist[c][k + 1].values.nlist)

C5_Witness ==
    /\ program = "memory"
    /\ Len(hist[1]) = 3
    /\ hist[1][1].values.nlist = <<"b", "b", "B">>
    /\ hist[1][2].values.nlist = <<"b", "b", "B", "c", "c", "C">>
    /\ hist[1][3].values.nlist = <<"b", "b", "B", "c", "c", "C", "q", "q">>

InterruptThread == ThreadConfig("interrupt", 1)

EmailThread == ThreadConfig("email", 1)

Unexpected(nlist) == Last(nlist) \notin {"b", "c", "q"}

\* the snapshot the thread held before a client's k-th invoke
ValuesBefore(c, k) == IF k = 1 THEN Defaults(program) ELSE hist[c][k - 1].values

\* the invoke last returned to the client answered an interrupt
Answered(c) ==
    /\ active = 0
    /\ Len(hist[c]) >= 2
    /\ hasInterrupt(hist[c][Len(hist[c]) - 1])

\* C6: in the interrupt graph an input whose last element is not 'b', 'c'
\* or 'q' makes invoke return the interrupt payload and no final result;
\* the thread is Paused with node a as its frontier, a's update is not in
\* the snapshot, and neither b nor c was invoked.
C6_InterruptReturnsPayload ==
    program = "interrupt" =>
        /\ \A k \in 1..Len(hist[1]) :
              hist[1][k].cmd = "input" /\ Unexpected(hist[1][k].arg[1].nlist) =>
                  /\ hasInterrupt(hist[1][k])
                  /\ hist[1][k].payload
                         = <<[message |-> Last(hist[1][k].arg[1].nlist)]>>
                  /\ hist[1][k].values.nlist
                         = ValuesBefore(1, k).nlist \o hist[1][k].arg[1].nlist
        /\ (status[InterruptThread] = "Paused") <=> (active = 0 /\ AwaitingResume(1))
        /\ status[InterruptThread] = "Paused" =>
              /\ loadLatest(InterruptThread).next = {"a"}
              /\ loadLatest(InterruptThread).values = LastResult(1).values
              /\ Len(trace[InterruptThread]) = 1
              /\ trace[InterruptThread][1].node = "a"
              /\ trace[InterruptThread][1].kind = "interrupt"
              /\ NodeRuns(InterruptThread, "b") = <<>>
              /\ NodeRuns(InterruptThread, "c") = <<>>

C6_Witness ==
    /\ program = "interrupt"
    /\ status[InterruptThread] = "Paused"
    /\ Len(hist[1]) = 2
    /\ hist[1][1].values.nlist = <<"b", "b", "B">>
    /\ hasInterrupt(hist[1][2])
    /\ hist[1][2].values.nlist = <<"b", "b", "B", "x">>

\* C7: one interrupt/resume cycle of node a of the interrupt graph enters
\* the node exactly twice, both times on the same snapshot: the first run
\* raises the interrupt, the second run's interrupt() call returns the
\* resume value and the node returns its Command.
C7_ResumeRestartsNode ==
    program = "interrupt" =>
        LET A == NodeRuns(InterruptThread, "a")
        IN  /\ Len(A) <= 2
            /\ Len(A) = 2 =>
                  /\ A[1].kind = "interrupt" /\ A[1].got = None
                  /\ A[2].kind = "command"
                  /\ A[2].input = A[1].input
                  /\ A[2].step = A[1].step
            /\ Answered(1) =>
                  /\ Len(A) = 2
                  /\ A[2].got = LastResult(1).arg

C7_Witness ==
    /\ program = "interrupt"
    /\ Answered(1)
    /\ Len(NodeRuns(InterruptThread, "a")) = 2
    /\ NodeRuns(InterruptThread, "a")[2].got = Some("continue")
    /\ NodeRuns(InterruptThread, "a")[2].input.nlist = <<"x">>
    /\ LastResult(1).values.nlist = <<"x", "x", "B">>

\* C8: in the email workflow a resume after human_review's interrupt runs
\* human_review again on the snapshot of its first invocation and runs none
\* of read_email, classify_intent, search_documentation, bug_tracking and
\* write_response again.
C8_ResumeOnlyInterruptedNode ==
    program = "email" =>
        LET tr == trace[EmailThread]
            H == NodeRuns(EmailThread, "human_review")
            upstream == {"read_email", "classify_intent", "search_documentation",
                         "bug_tracking", "write_response"}
        IN  /\ \A n \in upstream \cup {"send_reply"} :
                  Len(NodeRuns(EmailThread, n)) <= 1
            /\ \A i, j \in 1..Len(tr) :
                  tr[i].node = "human_review" /\ tr[j].node \in upstream => j < i
            /\ Len(H) <= 2
            /\ Len(H) = 2 =>
                  /\ H[1].kind = "interrupt"
                  /\ H[2].kind = "command"
                  /\ H[2].input = H[1].input
            /\ Answered(1) =>
                  /\ Len(H) = 2
                  /\ \A n \in upstream : Len(NodeRuns(EmailThread, n)) = 1

C8_Witness ==
    /\ program = "email"
    /\ Answered(1)
    /\ status[EmailThread] = "Completed"
    /\ Len(NodeRuns(EmailThread, "human_review")) = 2
    /\ Len(NodeRuns(EmailThread, "write_response")) = 1
    /\ Len(NodeRuns(EmailThread, "send_reply")) = 1
    /\ Len(trace[EmailThread]) = 8

\* C9: in the interrupt graph, interrupting node a and resuming with v
\* returns the final snapshot that the graph yields when node a gets v at
\* its interrupt point at once, without suspending, for every v.
C9_ResumeTransparent ==
    program = "interrupt" =>
        \A k \in 2..Len(hist[1]) :
            hasInterrupt(hist[1][k - 1]) =>
                /\ ~hasInterrupt(hist[1][k])
                /\ hist[1][k].values
                       = DirectRun(program, hist[1][k - 1].values,
                                   Entry(Graph(program)), <<hist[1][k].arg[1]>>)

C9_Witness ==
    /\ program = "interrupt"
    /\ Len(hist[1]) = 2
    /\ hasInterrupt(hist[1][1])
    /\ hist[1][2].arg = Some("stop")
    /\ hist[1][2].values.nlist = <<"x", "q">>

Rejected(d) == d.object /\ d.has_approved /\ ~d.approved

\* C10: a node whose Command names END is the last node invoked and the
\* thread ends Completed: after a rejection human_review goes to END and
\* send_reply is not invoked; in the conditional and memory graphs node a
\* goes to END on any input other than 'b' and 'c' and neither b nor c is
\* invoked.
C10_GotoEndHalts ==
    /\ \A tid \in ThreadIds(program) : \A i \in 1..Len(trace[tid]) :
          trace[tid][i].goto = END =>
              /\ i = Len(trace[tid])
              /\ run.tid # tid => status[tid] = "Completed"
    /\ program = "email" =>
          \A i \in 1..Len(trace[EmailThread]) :
              /\ trace[EmailThread][i].node = "human_review"
              /\ trace[EmailThread][i].got # None
              /\ Rejected(trace[EmailThread][i].got[1])
              => /\ trace[EmailThread][i].goto = END
                 /\ NodeRuns(EmailThread, "send_reply") = <<>>
    /\ program \in {"conditional", "memory"} =>
          \A tid \in ThreadIds(program) : \A i \in 1..Len(trace[tid]) :
              /\ trace[tid][i].node = "a"
              /\ Last(trace[tid][i].input.nlist) \notin {"b", "c"}
              => /\ trace[tid][i].goto = END
                 /\ NodeRuns(tid, "b") = <<>>
                 /\ NodeRuns(tid, "c") = <<>>

C10_Witness ==
    /\ program = "email"
    /\ status[EmailThread] = "Completed"
    /\ trace[EmailThread][Len(trace[EmailThread])].node = "human_review"
    /\ trace[EmailThread][Len(trace[EmailThread])].goto = END
    /\ NodeRuns(EmailThread, "send_reply") = <<>>
    /\ LastResult(1).values.draft_response = Some("draft")

ConditionalThread == ThreadConfig("conditional", 1)

\* C11: in the conditional-edges graph the goto of node a's Command is the
\* next frontier: b runs next iff the last element of the input nlist is
\* 'b', c runs next iff it is 'c', any other last element ends the run with
\* neither invoked, and b and c never both run in one invoke.
C11_GotoDecidesFrontier ==
    program = "conditional" /\ trace[ConditionalThread] # <<>> =>
        LET tr == trace[ConditionalThread]
            select == Last(InvokeArg(1).nlist)
            ranB == NodeRuns(ConditionalThread, "b") # <<>>
            ranC == NodeRuns(ConditionalThread, "c") # <<>>
        IN  /\ tr[1].node = "a" /\ tr[1].step = 1
            /\ Len(tr) <= 2
            /\ \A i \in 1..Len(tr) :
                  /\ tr[i].node = "b" => select = "b" /\ i = 2 /\ tr[i].step = 2
                  /\ tr[i].node = "c" => select = "c" /\ i = 2 /\ tr[i].step = 2
            /\ ~(ranB /\ ranC)
            /\ active = 0 =>
                  /\ ranB <=> select = "b"
                  /\ ranC <=> select = "c"
                  /\ status[ConditionalThread] = "Completed"
                  /\ ~hasInterrupt(LastResult(1))
                  /\ select \notin {"b", "c"} =>
                         LastResult(1).values.nlist = <<select, select>>

C11_Witness ==
    /\ program = "conditional"
    /\ active = 0
    /\ Len(hist[1]) = 2
    /\ hist[1][1].values.nlist = <<"x", "x">>
    /\ hist[1][2].arg = Some([nlist |-> <<"c">>])
    /\ Len(trace[ConditionalThread]) = 2
    /\ trace[ConditionalThread][2].node = "c"
    /\ hist[1][2].values.nlist = <<"c", "c", "C">>

\* C12: every destination a node's Command returns is among the ends that
\* node declares, in every builder of the graph: node a of the memory and
\* interrupt graphs, write_response and human_review of the email workflow.
C12_EndsDeclared ==
    \A tid \in ThreadIds(program) : \A i \in 1..Len(trace[tid]) :
        trace[tid][i].kind = "command" =>
            \A t \in Ends(program) :
                trace[tid][i].goto \in DeclaredEnds(t, trace[tid][i].node)

\* the client that invokes on a thread id
ClientOf(tid) == CHOOSE c \in Clients(program) : ThreadConfig(program, c) = tid

\* C14: loadLatest(tid) is the checkpoint saved last for tid: a save changes
\* the latest checkpoint of the saving run's thread only, to the snapshot
\* and frontier just saved, whatever saves of other threads come between;
\* for a thread id never saved loadLatest returns none.
C14_LoadLatestMostRecent ==
    /\ [](\A tid \in ThreadIds(program) :
            loadLatestOrNone(tid) = None <=>
                \/ ~Graph(program).checkpointer
                \/ /\ hist[ClientOf(tid)] = <<>>
                   /\ ~(run.tid = tid /\ run.step > 1))
    /\ [][\A tid \in ThreadIds(program) :
            store'[tid] # store[tid] =>
                /\ tid = run.tid
                /\ store'[tid] # <<>>
                /\ loadLatestOrNone(tid)' # loadLatestOrNone(tid)
                /\ loadLatest(tid)'.seq = Len(store[tid]) + 1
                /\ loadLatest(tid)'.thread = tid
                /\ loadLatest(tid)'.values
                       = (IF active' # 0 THEN run'.snap
                          ELSE hist'[active][Len(hist'[active])].values)
                /\ active' # 0 => loadLatest(tid)'.next = run'.frontier]_vars

C14_Witness ==
    /\ program = "memory"
    /\ active = 1 /\ run.step = 2
    /\ Len(store[thread1Config]) = 3
    /\ Len(store[thread2Config]) = 2
    /\ loadLatest(thread1Config).values = run.snap
    /\ loadLatest(thread1Config).next = {"c"}
    /\ loadLatest(thread2Config).values.nlist = <<"b", "b", "B">>

\* a super-step of the run in progress ends: committed, completed or suspended
StepEnds == active # 0 /\ (active' = 0 \/ run'.step # run.step)

\* C15: every thread's checkpoint history is append-only: the end of every
\* super-step appends exactly one checkpoint to the history of the run's
\* thread, nothing else changes a history, no saved checkpoint is changed or
\* removed, and the sequence numbers within a history strictly increase.
C15_AppendOnlyHistory ==
    /\ [](\A tid \in ThreadIds(program) : \A i, j \in 1..Len(store[tid]) :
            i < j => store[tid][i].seq < store[tid][j].seq)
    /\ [][\A tid \in ThreadIds(program) :
            /\ IsPrefix(store[tid], store'[tid])
            /\ Graph(program).checkpointer =>
                  IF StepEnds /\ tid = run.tid
                  THEN Len(store'[tid]) = Len(store[tid]) + 1
                  ELSE store'[tid] = store[tid]]_vars

C15_Witness ==
    /\ program = "interrupt"
    /\ active = 0
    /\ Len(store[InterruptThread]) = 3
    /\ store[InterruptThread][1].interrupts # <<>>
    /\ store[InterruptThread][1].next = {"a"}
    /\ store[InterruptThread][2].next = {"b"}
    /\ store[InterruptThread][3].next = {}
    /\ store[InterruptThread][3].values.nlist = <<"x", "x", "B">>

\* C13: a graph whose edges, declared ends or Commands name a node id that
\* is not in the registry is rejected when it is built: nothing is ever
\* invoked, run or saved on it, and its caller holds the build error only.
C13_UnknownDestinationRejected ==
    \A c \in Clients(program) :
        LET tid == ThreadConfig(program, c)
            g == Graph(program)
            known == {g.nodes[i] : i \in 1..Len(g.nodes)} \cup {END}
            named == {e[2] : e \in g.edges}
                     \cup UNION {UNION {t[n] : n \in DOMAIN t} : t \in Ends(program)}
                     \cup ({trace[tid][i].goto : i \in 1..Len(trace[tid])} \ {""})
        IN  IF named \subseteq known
            THEN \A k \in 1..Len(hist[c]) : hist[c][k].cmd # "compile"
            ELSE /\ active = 0
                 /\ trace[tid] = <<>>
                 /\ store[tid] = <<>>
                 /\ status[tid] = "Idle"
                 /\ \A k \in 1..Len(hist[c]) :
                        /\ hist[c][k].cmd = "compile"
                        /\ hist[c][k].kind = "error"

C13_Witness ==
    /\ program = "diamond_unknownEnd"
    /\ Len(hist[1]) = 1
    /\ hist[1][1].cmd = "compile"
    /\ hist[1][1].payload = <<[error |-> "UnknownDestinationError"]>>
    /\ trace["t1"] = <<>>
    /\ "z" \in DeclaredDestinations(program)

\* C17: when a node's step function fails the error reaches the caller of
\* invoke with the thread id, the node id and the step; the failing step
\* saves nothing, and the thread's latest checkpoint is the one committed
\* before that step: it holds the failed node in its frontier and the
\* snapshot the failed step started from (or is the one the invoke found
\* when the first step of a fresh run fails).
C17_NodeErrorPropagates ==
    /\ [](\A c \in Clients(program) :
            LET tid == ThreadConfig(program, c)
                tr == trace[tid]
            IN  tr # <<>> /\ tr[Len(tr)].kind = "error" =>
                    LET failed == tr[Len(tr)]
                        r == LastResult(c)
                    IN  /\ active # c
                        /\ r.kind = "error"
                        /\ r.payload = <<[error |-> "NodeExecutionError", thread |-> tid,
                                          node |-> failed.node, step |-> failed.step]>>
                        /\ Graph(program).checkpointer =>
                              IF r.cmd = "input" /\ failed.step = 1
                              THEN IF Len(hist[c]) = 1 THEN store[tid] = <<>>
                                   ELSE loadLatest(tid).values
                                            = hist[c][Len(hist[c]) - 1].values
                              ELSE /\ loadLatest(tid).step = failed.step
                                   /\ failed.node \in loadLatest(tid).next
                                   /\ loadLatest(tid).values = failed.input)
    /\ [][(\E tid \in ThreadIds(program) :
              /\ trace'[tid] # trace[tid]
              /\ trace'[tid] # <<>>
              /\ trace'[tid][Len(trace'[tid])].kind = "error")
          => store' = store /\ active' = 0]_vars

C17_Witness ==
    /\ program = "email"
    /\ active = 0
    /\ hist[1] # <<>>
    /\ LastResult(1).kind = "error"
    /\ LastResult(1).payload[1].error = "NodeExecutionError"
    /\ LastResult(1).payload[1].node = "write_response"
    /\ Len(NodeRuns(EmailThread, "bug_tracking")) = 1
    /\ Len(store[EmailThread]) = 3
    /\ loadLatest(EmailThread).next = {"write_response"}
    /\ loadLatest(EmailThread).values.ticket_id = Some(<<"BUG", 1>>)
    /\ loadLatest(EmailThread).values.draft_response = None

\* a resume command of client c is taken up in this step
ResumeTakenUp(c) ==
    /\ active = 0
    /\ \/ active' = c /\ run'.cmd = "resume"
       \/ /\ hist'[c] # hist[c]
          /\ hist'[c][Len(hist'[c])].cmd = "resume"

\* C18: a resume command for a thread that is not Paused is answered with a
\* usage error: no run starts, no node is invoked, nothing is saved and the
\* thread stays as it was; a run starts from a resume command only on a
\* Paused thread and then from the saved frontier.
C18_ResumeWithoutPause ==
    [][\A c \in Clients(program) :
          LET tid == ThreadConfig(program, c)
          IN  ResumeTakenUp(c) =>
                  IF status[tid] = "Paused"
                  THEN /\ active' = c
                       /\ run'.frontier = loadLatest(tid).next
                       /\ run'.step = loadLatest(tid).step
                  ELSE /\ active' = 0
                       /\ run' = run
                       /\ trace' = trace
                       /\ store' = store
                       /\ status' = status
                       /\ hist'[c][Len(hist'[c])].kind = "error"
                       /\ hist'[c][Len(hist'[c])].payload
                              = <<[error |-> "MissingCheckpointError", thread |-> tid]>>]_vars

C18_Witness ==
    /\ program = "interrupt"
    /\ active = 0
    /\ Len(hist[1]) = 2
    /\ hist[1][1].kind = "final"
    /\ hist[1][1].values.nlist = <<"b", "b", "B">>
    /\ hist[1][2].cmd = "resume"
    /\ hist[1][2].kind = "error"
    /\ status[InterruptThread] = "Completed"
    /\ Len(trace[InterruptThread]) = 2
    /\ Len(store[InterruptThread]) = 2

DiamondThread == ThreadConfig("diamond", 1)

\* the frontier of the only step in which a node of a program interrupts
InterruptedFrontier(p) ==
    CASE p = "interrupt" -> {"a"}
      [] p = "email" -> {"human_review"}
      [] p \in ScenarioPrograms -> {"b", "c"}
      [] OTHER -> {}

\* C19: when a node interrupts, the updates of the other nodes invoked in
\* that super-step are not committed: the snapshot that is saved and
\* returned is the one the step started from, and the frontier saved is
\* the whole frontier of the interrupted step.  In the diamond b's 'B' is
\* in no paused snapshot, although b returned before c interrupted, and is
\* in the final snapshot once.
C19_InterruptedStepNotCommitted ==
    \A c \in Clients(program) :
        LET tid == ThreadConfig(program, c)
            tr == trace[tid]
        IN  /\ \A k \in 1..Len(store[tid]) :
                  store[tid][k].interrupts # <<>> =>
                      /\ store[tid][k].next = InterruptedFrontier(program)
                      /\ program \in ScenarioPrograms =>
                             store[tid][k].values.nlist = <<"A">>
            /\ status[tid] = "Paused" =>
                  /\ tr[Len(tr)].kind = "interrupt"
                  /\ loadLatest(tid).values = tr[Len(tr)].input
                  /\ loadLatest(tid).step = tr[Len(tr)].step
                  /\ LastResult(c).values = tr[Len(tr)].input
                  /\ \A i \in 1..Len(tr) :
                         tr[i].step = tr[Len(tr)].step => tr[i].input = tr[Len(tr)].input
            /\ program \in ScenarioPrograms =>
                  \A k \in 1..Len(hist[c]) :
                      hist[c][k].kind = "final" =>
                          Len(SelectSeq(hist[c][k].values.nlist,
                                        LAMBDA x : x = "B")) = 1

C19_Witness ==
    /\ program = "diamond"
    /\ status[DiamondThread] = "Paused"
    /\ Len(trace[DiamondThread]) = 3
    /\ trace[DiamondThread][2].node = "b"
    /\ trace[DiamondThread][2].kind = "update"
    /\ trace[DiamondThread][3].node = "c"
    /\ trace[DiamondThread][3].kind = "interrupt"
    /\ loadLatest(DiamondThread).values.nlist = <<"A">>
    /\ loadLatest(DiamondThread).next = {"b", "c"}

\* the resume values a client's resume commands delivered to a paused
\* thread, in the order they were sent
ResumeValues(c) ==
    LET taken == SelectSeq(hist[c], LAMBDA h :
                     /\ h.cmd = "resume"
                     /\ h.payload # <<[error |-> "MissingCheckpointError",
                                       thread |-> ThreadConfig(program, c)]>>)
    IN  [k \in 1..Len(taken) |-> taken[k].arg[1]]
        \o (IF active = c /\ run.cmd = "resume" THEN <<run.arg[1]>> ELSE <<>>)

\* C20: node c of the diamond interrupts at each of its interrupt() calls in
\* turn: its i-th execution gets the values of the i-1 resume commands sent
\* so far at its first i-1 interrupt points, in the order they were sent,
\* and suspends at the i-th point with that point's payload; once every
\* point has a value the node returns, and the values are in the final
\* snapshot in that order.
C20_SequentialInterrupts ==
    program \in ScenarioPrograms =>
        LET C == SelectSeq(NodeRuns(DiamondThread, "c"), LAMBDA e : e.kind # "error")
            sent == ResumeValues(1)
            interrupts == SelectSeq(hist[1], LAMBDA h : h.kind = "interrupt")
        IN  /\ Len(C) <= Len(Asks) + 1
            /\ \A i \in 1..Len(C) :
                  /\ i - 1 <= Len(sent)
                  /\ C[i].got = IF i = 1 THEN None ELSE Some(SubSeq(sent, 1, i - 1))
                  /\ C[i].kind = "interrupt" <=> i <= Len(Asks)
                  /\ C[i].input = C[1].input
            /\ \A k \in 1..Len(interrupts) :
                  /\ k <= Len(Asks)
                  /\ interrupts[k].payload = <<[msg |-> Asks[k]]>>
            /\ \A k \in 1..Len(hist[1]) :
                  hist[1][k].kind = "final" =>
                      /\ Len(sent) = Len(Asks)
                      /\ IsPrefix(<<"A", "B">> \o sent, hist[1][k].values.nlist)

C20_Witness ==
    /\ program = "diamond"
    /\ active = 0
    /\ Len(hist[1]) = 3
    /\ hist[1][1].payload = <<[msg |-> "confirm?"]>>
    /\ hist[1][2].payload = <<[msg |-> "sure?"]>>
    /\ hist[1][2].arg = Some("no")
    /\ hist[1][3].arg = Some("yes")
    /\ hist[1][3].kind = "final"
    /\ hist[1][3].values.nlist = <<"A", "B", "no", "yes", "D">>
    /\ Len(NodeRuns(DiamondThread, "c")) = 3
    /\ NodeRuns(DiamondThread, "c")[3].got = Some(<<"no", "yes">>)

\* the programs whose nodes are deterministic: no language model, no
\* generateId()
DeterministicPrograms == {"parallel", "conditional", "memory", "interrupt"}

\* an invoke that found no state on its thread: the first on a thread id,
\* or any invoke of a graph compiled without a checkpointer
FreshInvoke(c, k) ==
    /\ hist[c][k].cmd = "input"
    /\ k = 1 \/ ~Graph(program).checkpointer

\* C21: with deterministic nodes, two invokes of one graph with the same
\* initial state, each on a thread that holds no state yet, return the same
\* result, in whatever order the nodes of a super-step were run: the result
\* is the one the graph yields on that input with its nodes run in
\* declaration order.
C21_Determinism ==
    program \in DeterministicPrograms =>
        /\ \A c, d \in Clients(program) :
              \A i \in 1..Len(hist[c]) : \A j \in 1..Len(hist[d]) :
                  /\ FreshInvoke(c, i) /\ FreshInvoke(d, j)
                  /\ hist[c][i].arg = hist[d][j].arg
                  => /\ hist[c][i].kind = hist[d][j].kind
                     /\ hist[c][i].values = hist[d][j].values
                     /\ hist[c][i].payload = hist[d][j].payload
        /\ \A c \in Clients(program) : \A i \in 1..Len(hist[c]) :
              FreshInvoke(c, i) /\ hist[c][i].kind = "final" =>
                  hist[c][i].values
                      = DirectRun(program,
                                  ApplyUpdate(program, Defaults(program),
                                              hist[c][i].arg[1]),
                                  Entry(Graph(program)), <<>>)

C21_Witness ==
    /\ program = "parallel"
    /\ active = 0
    /\ Len(hist[1]) = 2
    /\ hist[1][1].arg = hist[1][2].arg
    /\ hist[1][1].values = hist[1][2].values
    /\ trace[ParallelThread][2].node = "c"
    /\ trace[ParallelThread][4].node = "bb"
    /\ hist[1][2].values.nlist = <<"A", "B", "C", "BB", "CC", "D">>

-----------------------------------------------------------------------------
(* The reducer of nlist on its own: a snapshot holding any list, and any   *)
(* two updates folded into it one after the other.                         *)

Elems == {"a", "b"}

Lists == UNION {[1..n -> Elems] : n \in 0..MaxLen}

ReducerInit ==
    /\ program \in NlistPrograms
    /\ store = [t \in ThreadIds(program) |-> <<>>]
    /\ status = [t \in ThreadIds(program) |-> "Idle"]
    /\ active = 0
    /\ \E X \in Lists :
          run = [NoRun EXCEPT !.arg = Some([nlist |-> X]), !.snap = [nlist |-> X]]
    /\ trace = [t \in ThreadIds(program) |-> <<>>]
    /\ hist = [c \in Clients(program) |-> <<>>]
    /\ nextId = 1

\* one more update is folded into the snapshot
MergeUpdate(Y) ==
    /\ Len(run.done) < 2
    /\ run' = [run EXCEPT !.snap = ApplyUpdate(program, @, [nlist |-> Y]),
                          !.done = Append(@, [node |-> "",
                                              out |-> Update([nlist |-> Y])])]
    /\ UNCHANGED <<program, store, status, active, trace, hist, nextId>>

ReducerNext == \E Y \in Lists : MergeUpdate(Y)

ReducerSpec == ReducerInit /\ [][ReducerNext]_vars

\* C22: the append reducer of nlist is associative: a snapshot X into which
\* the updates Y and then Z were merged holds the nlist that merging X with
\* the merge of Y and Z gives, for all lists X, Y, Z.
C22_ReducerAssociative ==
    Len(run.done) = 2 =>
        LET X == run.arg[1].nlist
            Y == run.done[1].out.update.nlist
            Z == run.done[2].out.update.nlist
        IN  /\ run.snap.nlist = reducer(reducer(X, Y), Z)
            /\ run.snap.nlist = reducer(X, reducer(Y, Z))
            /\ run.snap.nlist
                   = ApplyUpdate(program, [nlist |-> X],
                                 [nlist |-> Reduce(program, "nlist", Y, Z)]).nlist

C22_Witness ==
    /\ Len(run.done) = 2
    /\ run.arg[1].nlist = <<"a", "b">>
    /\ run.done[1].out.update.nlist = <<"b">>
    /\ run.done[2].out.update.nlist = <<"a", "a">>
    /\ run.snap.nlist = <<"a", "b", "b", "a", "a">>

-----------------------------------------------------------------------------
(* The email workflow, node by node *)

\* the fields the claim allows each node of the email workflow to change
FrameOf(n) ==
    CASE n = "classify_intent" -> {"classification"}
      [] n = "search_documentation" -> {"search_results"}
      [] n = "bug_tracking" -> {"ticket_id"}
      [] n \in {"write_response", "human_review"} -> {"draft_response"}
      [] OTHER -> {}

\* the snapshot a super-step of the email thread started from: the one
\* saved before it, or the input of the invoke
SnapshotBefore(k) ==
    IF k = 1
    THEN ApplyUpdate("email", EmailStateAnnotation, hist[1][1].arg[1])
    ELSE store[EmailThread][k - 1].values

\* the nodes of the super-step that the k-th checkpoint of the email thread
\* closes
NodesBefore(k) ==
    IF k = 1 THEN Entry(createEmailWorkflowGraph) ELSE store[EmailThread][k - 1].next

\* C23: a field that no node of a super-step writes keeps its value:
\* read_email and send_reply return an empty update and the snapshot after
\* each of them is the snapshot before it; search_documentation writes
\* search_results only and bug_tracking ticket_id only, and every other
\* field is after their step what it was before.
C23_FrameEffect ==
    program = "email" =>
        /\ \A i \in 1..Len(run.done) :
              DOMAIN run.done[i].out.update \subseteq FrameOf(run.done[i].node)
        /\ hist[1] # <<>> =>
              \A k \in 1..Len(store[EmailThread]) :
                  \A f \in DOMAIN EmailStateAnnotation :
                      f \notin UNION {FrameOf(n) : n \in NodesBefore(k)} =>
                          store[EmailThread][k].values[f] = SnapshotBefore(k)[f]
        /\ \A i, j \in 1..Len(trace[EmailThread]) :
              /\ trace[EmailThread][i].node = "read_email"
              /\ trace[EmailThread][j].node = "classify_intent"
              => trace[EmailThread][j].input = trace[EmailThread][i].input
        /\ \A i \in 1..Len(trace[EmailThread]) :
              /\ trace[EmailThread][i].node = "send_reply"
              /\ active = 0
              => LastResult(1).values = trace[EmailThread][i].input

C23_Witness ==
    /\ program = "email"
    /\ active = 0
    /\ status[EmailThread] = "Completed"
    /\ Len(store[EmailThread]) = 5
    /\ store[EmailThread][3].values.search_results # None
    /\ store[EmailThread][3].values.ticket_id = Some(<<"BUG", 1>>)
    /\ store[EmailThread][3].values.classification
           = store[EmailThread][2].values.classification
    /\ store[EmailThread][4].next = {"send_reply"}
    /\ store[EmailThread][5].values = store[EmailThread][4].values
    /\ LastResult(1).values.draft_response = Some("draft")

\* the classification a node of the email workflow reads in a snapshot
ClassificationOf(state) ==
    IF state.classification # None THEN state.classification[1]
    ELSE [intent |-> "question", urgency |-> "medium"]

NeedsReview(state) ==
    \/ ClassificationOf(state).urgency \in {"high", "critical"}
    \/ ClassificationOf(state).intent = "complex"

\* C24: write_response always returns a Command that sets draft_response;
\* it goes to human_review exactly when the urgency it reads is 'high' or
\* 'critical', or the intent is 'complex', or the draft could not be
\* generated, and to send_reply otherwise; the node it names is the node
\* that runs next, on a snapshot that holds the draft.
C24_WriteResponseRouting ==
    program = "email" =>
        /\ \A i \in 1..Len(run.done) :
              run.done[i].node = "write_response" =>
                  LET out == run.done[i].out
                  IN  /\ out.kind = "command"
                      /\ DOMAIN out.update = {"draft_response"}
                      /\ out.update.draft_response # None
                      /\ out.goto \in {"human_review", "send_reply"}
                      /\ out.goto = "human_review" <=>
                             \/ NeedsReview(run.snap)
                             \/ out.update.draft_response = Some(ErrorDraft)
        /\ \A i \in 1..Len(trace[EmailThread]) :
              trace[EmailThread][i].node = "write_response" =>
                  /\ NeedsReview(trace[EmailThread][i].input) =>
                         trace[EmailThread][i].goto = "human_review"
                  /\ i < Len(trace[EmailThread]) =>
                         /\ trace[EmailThread][i + 1].node = trace[EmailThread][i].goto
                         /\ trace[EmailThread][i + 1].input.draft_response # None
                         /\ trace[EmailThread][i].goto = "send_reply" =>
                                /\ ~NeedsReview(trace[EmailThread][i].input)
                                /\ trace[EmailThread][i + 1].input.draft_response
                                       # Some(ErrorDraft)

C24_Witness ==
    /\ program = "email"
    /\ status[EmailThread] = "Paused"
    /\ Len(trace[EmailThread]) = 6
    /\ trace[EmailThread][5].node = "write_response"
    /\ ClassificationOf(trace[EmailThread][5].input).intent = "complex"
    /\ ClassificationOf(trace[EmailThread][5].input).urgency = "low"
    /\ trace[EmailThread][5].goto = "human_review"
    /\ trace[EmailThread][6].node = "human_review"
    /\ trace[EmailThread][6].input.draft_response = Some("draft")

Approved(d) == d.object /\ d.has_approved /\ d.approved

\* the draft the thread holds once human_review has taken the decision d on
\* a snapshot: the edited text of an approval that carries one, else the
\* draft human_review read
DraftAfter(state, d) ==
    IF Approved(d) /\ Truthy(d.edited_response)
    THEN d.edited_response
    ELSE state.draft_response

C26_TicketOnlyForBug ==
    program = "email" =>
        /\ \A i \in 1..Len(trace[EmailThread]) :
              trace[EmailThread][i].node = "bug_tracking" =>
                  /\ trace[EmailThread][i].input.classification # None
                  /\ trace[EmailThread][i].input.classification[1].intent = "bug"
        /\ \A s \in SeenSnapshots(1) :
              s.ticket_id # None =>
                  s.classification # None /\ s.classification[1].intent = "bug"

\* the step in which a node ran on the email thread (0 when it has not run)
StepOf(n) ==
    IF NodeRuns(EmailThread, n) = <<>> THEN 0 ELSE NodeRuns(EmailThread, n)[1].step

EngineStates == {"Idle", "Running", "Paused", "Completed"}

\* an invoke of client c ends in this step with the result r
Returns(c, r) == hist'[c] # hist[c] /\ r = hist'[c][Len(hist'[c])]

\* C28: a thread is always Idle, Running, Paused or Completed, and Running
\* exactly while an invoke on it is awaited.  An invoke returns a result in
\* two states only: Paused, with the payloads of the interrupts and
\* hasInterrupt true of the result, or Completed, with the final snapshot,
\* no payload and hasInterrupt false; a failure is neither: it carries no
\* snapshot and leaves the thread neither Running nor newly Paused or
\* Completed.  A thread becomes Completed only from Running, with every
\* node of the step returned and no destination but END.
C28_StatusMachine ==
    /\ [](\A tid \in ThreadIds(program) :
            /\ status[tid] \in EngineStates
            /\ status[tid] = "Running" <=> (active # 0 /\ run.tid = tid))
    /\ [][\A c \in Clients(program) : \A r \in {hist'[c][k] : k \in 1..Len(hist'[c])} :
            Returns(c, r) =>
                LET tid == ThreadConfig(program, c)
                IN  /\ r.kind \in {"final", "interrupt", "error"}
                    /\ active' = 0
                    /\ r.kind = "final" =>
                          /\ status'[tid] = "Completed"
                          /\ ~hasInterrupt(r)
                          /\ r.values # None /\ r.payload = <<>>
                          /\ r.values = MergeInOrder(program, run.snap,
                                                     Graph(program).nodes, run.done)
                    /\ r.kind = "interrupt" =>
                          /\ status'[tid] = "Paused"
                          /\ hasInterrupt(r)
                          /\ r.payload # <<>>
                          /\ \A i \in 1..Len(r.payload) :
                                 Some(r.payload[i]) = Interrupts(run.done)[i].out.payload
                    /\ r.kind = "error" =>
                          /\ ~hasInterrupt(r)
                          /\ r.values = None
                          /\ status'[tid] # "Running"
                          /\ status'[tid] \in {"Paused", "Completed"} =>
                                 status'[tid] = status[tid]]_vars
    /\ [][\A tid \in ThreadIds(program) :
            status'[tid] = "Completed" /\ status[tid] # "Completed" =>
                /\ status[tid] = "Running"
                /\ run.pending = {}
                /\ Interrupts(run.done) = <<>>
                /\ \A i \in 1..Len(run.done) :
                       Targets(Graph(program), run.done[i]) \subseteq {END}]_vars

C28_Witness ==
    /\ program = "interrupt"
    /\ active = 0
    /\ status[InterruptThread] = "Completed"
    /\ Len(hist[1]) = 3
    /\ hist[1][1].kind = "interrupt" /\ hist[1][1].payload = <<[message |-> "x"]>>
    /\ hist[1][2].kind = "final" /\ hist[1][2].values.nlist = <<"x", "x", "B">>
    /\ hist[1][3].kind = "error"

\* the nodes of the step a thread's trace ends with
LastStepNodes(tid) ==
    {trace[tid][i].node : i \in {j \in 1..Len(trace[tid]) :
                                    trace[tid][j].step
                                        = trace[tid][Len(trace[tid])].step}}

C30_ResumeOutcome ==
    program = "interrupt" =>
        \A k \in 2..Len(hist[1]) :
            hasInterrupt(hist[1][k - 1]) =>
                LET P == ValuesBefore(1, k - 1).nlist
                    x == Last(hist[1][k - 1].arg[1].nlist)
                    answer == hist[1][k].arg[1]
                    latest == k = Len(hist[1]) /\ active = 0
                IN  /\ x \notin {"b", "c", "q"}
                    /\ hist[1][k].cmd = "resume"
                    /\ hist[1][k].kind = "final"
                    /\ hist[1][k].values.nlist
                           = IF answer = "continue" THEN P \o <<x, x, "B">>
                             ELSE P \o <<x, "q">>
                    /\ latest =>
                          /\ status[InterruptThread] = "Completed"
                          /\ Len(NodeRuns(InterruptThread, "b"))
                                 = IF answer = "continue" THEN 1 ELSE 0
                          /\ NodeRuns(InterruptThread, "c") = <<>>

C30_Witness ==
    /\ program = "interrupt"
    /\ active = 0
    /\ Len(hist[1]) = 3
    /\ hist[1][1].values.nlist = <<"c", "c", "C">>
    /\ hasInterrupt(hist[1][2])
    /\ hist[1][3].arg = Some("stop")
    /\ hist[1][3].values.nlist = <<"c", "c", "C", "x", "q">>
    /\ Len(trace[InterruptThread]) = 2

-----------------------------------------------------------------------------
(* The drivers and the values they see *)

\* what one invoke of the memory graph with nlist [u] adds to the thread
Extension(u) ==
    IF u = "b" THEN <<"b", "b", "B">>
    ELSE IF u = "c" THEN <<"c", "c", "C">>
    ELSE <<u, u>>

\* C31: on a checkpointed thread the input of an invoke is appended to the
\* stored nlist, not put in its place, and node a appends the selected
\* element once more: an invoke with ['b'] extends the stored nlist by
\* exactly b, b, B.  After the invokes b, c, q 'thread-1' holds
\* [b,b,B,c,c,C,q,q]; after c, b, q 'thread-2' holds [c,c,C,b,b,B,q,q].
C31_InputFoldedByReducer ==
    program = "memory" =>
        \A c \in Clients(program) :
            /\ \A k \in 1..Len(hist[c]) :
                  /\ Len(hist[c][k].arg[1].nlist) = 1
                  /\ hist[c][k].values.nlist
                         = ValuesBefore(c, k).nlist
                               \o Extension(hist[c][k].arg[1].nlist[1])
            /\ active # c /\ hist[c] # <<>> =>
                  loadLatest(ThreadConfig(program, c)).values = LastResult(c).values
            /\ Len(hist[c]) = 3 =>
                  /\ InputsOf(c, 3) = <<[nlist |-> <<"b">>], [nlist |-> <<"c">>],
                                        [nlist |-> <<"q">>]>>
                     => hist[c][3].values.nlist
                            = <<"b", "b", "B", "c", "c", "C", "q", "q">>
                  /\ InputsOf(c, 3) = <<[nlist |-> <<"c">>], [nlist |-> <<"b">>],
                                        [nlist |-> <<"q">>]>>
                     => hist[c][3].values.nlist
                            = <<"c", "c", "C", "b", "b", "B", "q", "q">>

C31_Witness ==
    /\ program = "memory"
    /\ active = 0
    /\ Len(hist[1]) = 3 /\ Len(hist[2]) = 3
    /\ InputsOf(1, 3) = <<[nlist |-> <<"b">>], [nlist |-> <<"c">>], [nlist |-> <<"q">>]>>
    /\ InputsOf(2, 3) = <<[nlist |-> <<"c">>], [nlist |-> <<"b">>], [nlist |-> <<"q">>]>>
    /\ loadLatest(thread1Config).values.nlist
           = <<"b", "b", "B", "c", "c", "C", "q", "q">>
    /\ loadLatest(thread2Config).values.nlist
           = <<"c", "c", "C", "b", "b", "B", "q", "q">>

\* a resume value that human_review cannot read as a decision
Unreadable(d) == ~(d.object /\ d.has_approved)

\* C32: a resume value that is no object with an 'approved' key makes
\* human_review go to send_reply with the draft as it was: the email, which
\* write_response had sent to review, is sent although nobody approved it.
C32_UnreadableDecisionSends ==
    program = "email" =>
        \A i \in 1..Len(trace[EmailThread]) :
            LET e == trace[EmailThread][i]
            IN  e.node = "human_review" /\ e.got # None /\ Unreadable(e.got[1]) =>
                    /\ e.kind = "command"
                    /\ e.goto = "send_reply"
                    /\ \/ NeedsReview(e.input)
                       \/ e.input.draft_response = Some(ErrorDraft)
                    /\ i < Len(trace[EmailThread]) =>
                          /\ trace[EmailThread][i + 1].node = "send_reply"
                          /\ trace[EmailThread][i + 1].input = e.input
                    /\ active = 0 =>
                          /\ status[EmailThread] = "Completed"
                          /\ Len(NodeRuns(EmailThread, "send_reply")) = 1
                          /\ LastResult(1).values = e.input
                          /\ ~Approved(LastResult(1).arg[1])

C32_Witness ==
    /\ program = "email"
    /\ active = 0
    /\ Answered(1)
    /\ Unreadable(LastResult(1).arg[1])
    /\ ClassificationOf(LastResult(1).values).urgency = "critical"
    /\ status[EmailThread] = "Completed"
    /\ Len(NodeRuns(EmailThread, "send_reply")) = 1
    /\ LastResult(1).values.draft_response = Some("draft")

-----------------------------------------------------------------------------
(* The batch of emails: runBatchEmailExample *)

\* new Command({ resume: { approved: true } })
humanResponse ==
    [object |-> TRUE, has_approved |-> TRUE, approved |-> TRUE, edited_response |-> None]

\* the queue read from its newest entry
needsApproval_newestFirst ==
    LET queued == SelectSeq([i \in 1..BatchSize |-> i],
                            LAMBDA i : hist[i] # <<>> /\ hasInterrupt(hist[i][1]))
    IN  [k \in 1..Len(queued) |-> queued[Len(queued) + 1 - k]]

\* needsApproval: the emails whose invoke returned an interrupt, in the order
\* of the loop that pushed them
needsApproval ==
    SelectSeq([i \in 1..BatchSize |-> i],
              LAMBDA i : hist[i] # <<>> /\ hasInterrupt(hist[i][1]))

\* the emails of the queue that the second loop has taken up
ApprovalsSent ==
    Cardinality({i \in 1..BatchSize :
                    \/ Len(hist[i]) >= 2
                    \/ active = i /\ run.cmd = "resume"})

\* first loop of the batch: the i-th email is invoked on a thread of its own
\* once the invoke of the email before it has returned
InvokeBatch(i) ==
    /\ program = "batch"
    /\ active = 0
    /\ hist[i] = <<>>
    /\ \A j \in 1..(i - 1) : hist[j] # <<>>
    /\ \E input \in Inputs(program, i) :
          run' = StartRun(ThreadConfig(program, i), input)
    /\ active' = i
    /\ status' = [status EXCEPT ![ThreadConfig(program, i)] = "Running"]
    /\ trace' = [trace EXCEPT ![ThreadConfig(program, i)] = <<>>]
    /\ UNCHANGED <<program, store, hist, nextId>>

\* second loop of the batch: the next email of the queue is approved
ResumeBatch(i) ==
    /\ program = "batch"
    /\ active = 0
    /\ \A j \in 1..BatchSize : hist[j] # <<>>
    /\ ApprovalsSent < Len(needsApproval)
    /\ i = needsApproval[ApprovalsSent + 1]
    /\ Paused(ThreadConfig(program, i))
    /\ active' = i
    /\ run' = ResumeRun(ThreadConfig(program, i), humanResponse)
    /\ status' = [status EXCEPT ![ThreadConfig(program, i)] = "Running"]
    /\ UNCHANGED <<program, store, trace, hist, nextId>>

BatchInit ==
    /\ program = "batch"
    /\ store = [t \in ThreadIds(program) |-> <<>>]
    /\ status = [t \in ThreadIds(program) |-> "Idle"]
    /\ active = 0
    /\ run = NoRun
    /\ trace = [t \in ThreadIds(program) |-> <<>>]
    /\ hist = [c \in Clients(program) |-> <<>>]
    /\ nextId = 1

BatchNext ==
    \/ \E i \in 1..BatchSize : InvokeBatch(i)
    \/ \E i \in 1..BatchSize : ResumeBatch(i)
    \/ \E n \in run.pending : RunNode(n)
    \/ CommitStep
    \/ Complete
    \/ Pause

\* the driver awaits every invoke and the engine runs a started invoke to
\* its result, so a step that can be taken is taken
BatchSpec == BatchInit /\ [][BatchNext]_vars /\ WF_vars(BatchNext)

\* both loops of the batch are over
BatchEnds ==
    /\ program = "batch"
    /\ active = 0
    /\ \A i \in 1..BatchSize : hist[i] # <<>>
    /\ ApprovalsSent = Len(needsApproval)

BatchThreads ==
    program = "batch" =>
        /\ \A i, j \in 1..BatchSize :
              i # j => ThreadConfig(program, i) # ThreadConfig(program, j)
        /\ \A i \in 1..BatchSize :
              /\ Len(hist[i]) <= 2
              /\ Len(hist[i]) = 2 =>
                    /\ hasInterrupt(hist[i][1])
                    /\ hist[i][2].cmd = "resume"
                    /\ hist[i][2].arg = Some(humanResponse)
                    /\ hist[i][2].kind = "final"
              /\ active = i /\ run.cmd = "resume" =>
                    /\ Len(hist[i]) = 1
                    /\ hasInterrupt(hist[i][1])
                    /\ run.arg = Some(humanResponse)
                    /\ \A j \in 1..BatchSize : hist[j] # <<>>
                    /\ \A j \in 1..(i - 1) :
                          hasInterrupt(hist[j][1]) => Len(hist[j]) = 2
        /\ BatchEnds =>
              \A i \in 1..BatchSize :
                  /\ status[ThreadConfig(program, i)] = "Completed"
                  /\ ~Paused(ThreadConfig(program, i))
                  /\ Len(NodeRuns(ThreadConfig(program, i), "send_reply")) = 1
                  /\ hasInterrupt(hist[i][1]) <=> Len(hist[i]) = 2
                  /\ LastResult(i).kind = "final"
                  /\ LastResult(i).values.email_id = hist[i][1].arg[1].email_id

-----------------------------------------------------------------------------
(* When the drivers send a resume command *)

\* a driver sends a resume command: this step starts a resumed run
ResumeSent == active = 0 /\ active' # 0 /\ run'.cmd = "resume"

\* whenever a driver holds a result of which hasInterrupt is true, that
\* result is the last thing that happened on the thread and the thread is
\* Paused
InterruptMeansPaused ==
    \A c \in Clients(program) :
        AwaitingResume(c) /\ active # c =>
            /\ status[ThreadConfig(program, c)] = "Paused"
            /\ Paused(ThreadConfig(program, c))
            /\ loadLatest(ThreadConfig(program, c)).values = LastResult(c).values

\* C34: a driver sends a resume command to a thread only when the last
\* command it sent to that thread returned an interrupt; the thread is then
\* Paused, never Idle or Completed.
C34_ResumeOnlyAfterInterrupt ==
    /\ []InterruptMeansPaused
    /\ [][ResumeSent =>
             /\ run'.tid = ThreadConfig(program, active')
             /\ hist[active'] # <<>>
             /\ hasInterrupt(LastResult(active'))
             /\ status[run'.tid] = "Paused"
             /\ Paused(run'.tid)]_vars

C34_Witness ==
    /\ program = "interrupt"
    /\ active = 1
    /\ run.cmd = "resume"
    /\ Len(hist[1]) = 2
    /\ hist[1][1].kind = "final"
    /\ hasInterrupt(hist[1][2])
    /\ status[InterruptThread] = "Running"

-----------------------------------------------------------------------------
(* The two versions of human_review, side by side *)

\* humanReview of the second version of the workflow (900-943): `??` where
\* the first version has `||`
humanReview_v2(state, resumes) ==
    LET classification ==
            IF state.classification # None THEN state.classification[1]
            ELSE [urgency |-> "medium", intent |-> "question"]
    IN  IF Len(resumes) = 0
        THEN {Interrupt([email_id |-> state.email_id,
                         original_email |-> state.email_content,
                         draft_response |-> IF state.draft_response # None
                                            THEN state.draft_response[1] ELSE "",
                         urgency |-> classification.urgency,
                         intent |-> classification.intent])}
        ELSE LET humanDecision == resumes[1]
             IN  IF humanDecision.object /\ humanDecision.has_approved
                 THEN IF humanDecision.approved
                      THEN LET editedResponse ==
                                   IF humanDecision.edited_response # None
                                   THEN humanDecision.edited_response
                                   ELSE state.draft_response
                           IN  {Resumed(Command([draft_response |-> editedResponse],
                                                "send_reply"), humanDecision)}
                      ELSE {Resumed(Command(NoUpdate, END), humanDecision)}
                 ELSE {Resumed(Command(NoUpdate, "send_reply"), humanDecision)}

\* resume values: the decisions of the drivers, an approval whose edited text
\* is empty, and an object without an 'approved' key
ReviewDecisions ==
    HumanDecisions
    \cup {[object |-> TRUE, has_approved |-> TRUE, approved |-> TRUE,
           edited_response |-> Some("")],
          [object |-> TRUE, has_approved |-> FALSE, approved |-> FALSE,
           edited_response |-> None]}

\* states human_review can be given: no draft, an empty one or a text, with
\* and without a classification
ReviewStates ==
    {[EmailStateAnnotation EXCEPT !.email_id = Some("email_123"),
                                  !.classification = cl,
                                  !.draft_response = dr] :
        cl \in {None} \cup {Some(c) : c \in BatchClassifications},
        dr \in {None, Some(""), Some("draft")}}

ReviewInit ==
    /\ program = "email"
    /\ store = [t \in ThreadIds(program) |-> <<>>]
    /\ status = [t \in ThreadIds(program) |-> "Idle"]
    /\ active = 0
    /\ \E state \in ReviewStates :
       \E resumes \in {<<>>} \cup {<<d>> : d \in ReviewDecisions} :
          run = [NoRun EXCEPT !.snap = state, !.resumes = resumes]
    /\ trace = [t \in ThreadIds(program) |-> <<>>]
    /\ hist = [c \in Clients(program) |-> <<>>]
    /\ nextId = 1

\* the first version of the node is run on the state
ReviewFirst ==
    /\ Len(run.done) = 0
    /\ \E o \in humanReview(run.snap, run.resumes) :
          run' = [run EXCEPT !.done = Append(@, [node |-> "human_review", out |-> o])]
    /\ UNCHANGED <<program, store, status, active, trace, hist, nextId>>

\* the second version is run on the same state with the same resume value
ReviewSecond ==
    /\ Len(run.done) = 1
    /\ \E o \in humanReview_v2(run.snap, run.resumes) :
          run' = [run EXCEPT !.done = Append(@, [node |-> "human_review", out |-> o])]
    /\ UNCHANGED <<program, store, status, active, trace, hist, nextId>>

ReviewNext == ReviewFirst \/ ReviewSecond

ReviewSpec == ReviewInit /\ [][ReviewNext]_vars

\* C35: for every state and every resume value the two versions of
\* human_review return the same goto and the same draft_response update, an
\* approval whose edited_response is the empty string included.
C35_ReviewVersionsAgree ==
    Len(run.done) = 2 /\ run.done[1].node = "human_review" =>
        /\ run.done[1].out.kind = run.done[2].out.kind
        /\ run.done[1].out.goto = run.done[2].out.goto
        /\ run.done[1].out.update = run.done[2].out.update

-----------------------------------------------------------------------------
(* What the nodes of the email workflow find in the state *)

\* the nodes that read state.classification
ReadsClassification ==
    {"search_documentation", "bug_tracking", "write_response", "human_review",
     "send_reply"}

\* C36: in the email workflow search_documentation, bug_tracking,
\* write_response, human_review and send_reply are only invoked on a state
\* whose classification is defined, after a failed classification call too;
\* human_review and send_reply are only invoked after write_response has
\* returned on the thread, on a state whose draft_response is set.
C36_ClassifiedBeforeUse ==
    program \in EmailPrograms =>
        \A tid \in ThreadIds(program) :
            \A i \in 1..Len(trace[tid]) :
                LET e == trace[tid][i]
                IN  /\ e.node \in ReadsClassification =>
                          /\ e.input.classification # None
                          /\ \E j \in 1..(i - 1) :
                                /\ trace[tid][j].node = "classify_intent"
                                /\ trace[tid][j].step < e.step
                    /\ e.node \in {"human_review", "send_reply"} =>
                          /\ e.input.draft_response # None
                          /\ \E j \in 1..(i - 1) :
                                /\ trace[tid][j].node = "write_response"
                                /\ trace[tid][j].kind = "command"
                                /\ trace[tid][j].step < e.step

C36_Witness ==
    /\ program = "email"
    /\ active = 0
    /\ Answered(1)
    /\ LastResult(1).values.classification = Some(FallbackClassification)
    /\ Len(NodeRuns(EmailThread, "human_review")) = 2
    /\ Len(NodeRuns(EmailThread, "send_reply")) = 1
    /\ LastResult(1).values.draft_response = Some(ErrorDraft)

\* the fields a node's return value writes
Writes(d) == DOMAIN d.out.update

\* C37: in the email workflow the nodes of one super-step write different
\* fields: no field gets two writes in a step, so the snapshot a step leaves
\* does not depend on the order in which last-write-wins takes the updates.
C37_DisjointWrites ==
    program \in EmailPrograms /\ active # 0 =>
        /\ \A i, j \in 1..Len(run.done) :
              i # j => Writes(run.done[i]) \cap Writes(run.done[j]) = {}
        /\ Len(run.done) = 2 =>
              ApplyUpdate(program, ApplyUpdate(program, run.snap, run.done[1].out.update),
                          run.done[2].out.update)
              = ApplyUpdate(program, ApplyUpdate(program, run.snap, run.done[2].out.update),
                            run.done[1].out.update)
        /\ Cardinality(run.frontier) > 1 =>
              run.frontier = {"search_documentation", "bug_tracking"}

C37_Witness ==
    /\ program = "email"
    /\ active = 1
    /\ run.frontier = {"search_documentation", "bug_tracking"}
    /\ Len(run.done) = 2
    /\ run.done[1].node = "bug_tracking"
    /\ Writes(run.done[1]) = {"ticket_id"}
    /\ Writes(run.done[2]) = {"search_results"}

-----------------------------------------------------------------------------
(* Termination of an invoke *)

\* the engine takes a step of the invoke in progress
EngineStep ==
    \/ \E n \in run.pending : RunNode(n)
    \/ CommitStep
    \/ Complete
    \/ Pause

\* the drivers as in Spec; an invoke that was started is run on: the
\* engine's loop does not stop between two steps, and the node functions
\* return
LiveSpec == Init /\ [][Next]_vars /\ WF_vars(EngineStep)

\* the longest path of a program's graph, in super-steps
MaxSteps(p) ==
    CASE p = "parallel" -> 4
      [] p \in EmailPrograms -> 6
      [] OTHER -> 2

\* the call a trace entry belongs to: a call ends with the thread's
\* completion or with an interrupt, and the next call starts after it
CallOf(tid, i) ==
    Cardinality({j \in 1..(i - 1) : trace[tid][j].kind = "interrupt"})

\* the edges of a program's graph and the destinations its nodes declare
Arcs(p) ==
    Graph(p).edges
    \cup UNION {UNION {{<<n, d>> : d \in t[n]} : n \in DOMAIN t} : t \in Ends(p)}

\* the nodes reached from a set of nodes in at most k more arcs
RECURSIVE Descendants(_, _, _)
Descendants(p, S, k) ==
    IF k = 0 THEN S
    ELSE Descendants(p, S \cup {a[2] : a \in {b \in Arcs(p) : b[1] \in S}}, k - 1)

\* no node of the graph is reached from itself
Acyclic(p) ==
    \A n \in Registry(p) :
        n \notin Descendants(p, {a[2] : a \in {b \in Arcs(p) : b[1] = n}},
                             Cardinality(Registry(p)))

\* an invoke or a resume is in progress
InProgress == active # 0

\* the call has returned to the driver with the thread Completed or Paused
Returned ==
    /\ active = 0
    /\ \A c \in Clients(program) :
          hist[c] # <<>> =>
              /\ LastResult(c).kind \in {"final", "interrupt"}
              /\ status[ThreadConfig(program, c)] \in {"Completed", "Paused"}

StepsBounded ==
    /\ active # 0 => run.step \in 1..MaxSteps(program)
    /\ \A tid \in ThreadIds(program) :
          /\ \A i \in 1..Len(trace[tid]) : trace[tid][i].step \in 1..MaxSteps(program)
          /\ \A i, j \in 1..Len(trace[tid]) :
                /\ i < j => trace[tid][i].step <= trace[tid][j].step
                /\ i # j /\ trace[tid][i].node = trace[tid][j].node =>
                      CallOf(tid, i) # CallOf(tid, j)
    /\ Acyclic(program)

\* C38: every invoke and every resume ends with the thread Completed or
\* Paused; a call takes at most 4 super-steps on the parallel graph and at
\* most 6 on the email workflow, the steps of a thread only go forward, and
\* no node is invoked twice within one call.
C38_InvokeTerminates == []StepsBounded /\ (InProgress ~> Returned)

C38_Witness ==
    /\ program = "email"
    /\ active = 0
    /\ Answered(1)
    /\ status[EmailThread] = "Completed"
    /\ \E i \in 1..Len(trace[EmailThread]) : trace[EmailThread][i].step = 6
    /\ Len(NodeRuns(EmailThread, "human_review")) = 2

-----------------------------------------------------------------------------
(* When the interactive loops end *)

\* what the user typed in the iteration of the loop that returned last
UserInput(c) ==
    IF LastResult(c).cmd = "resume"
    THEN hist[c][Len(hist[c]) - 1].arg[1].nlist[1]
    ELSE LastResult(c).arg[1].nlist[1]

\* an iteration of a driver's loop is over: the invoke, and the resume if
\* there was an interrupt, have returned
IterationOver(c) ==
    /\ program \in {"memory", "interrupt"}
    /\ active # c
    /\ hist[c] # <<>>
    /\ ~hasInterrupt(LastResult(c))

LoopExits ==
    \A c \in Clients(program) :
        IterationOver(c) =>
            LET user == UserInput(c)
                result == LastResult(c)
            IN  /\ program = "memory" =>
                      /\ result.cmd = "input"
                      /\ LoopExit(c) <=> user = "q"
                /\ program = "interrupt" =>
                      LoopExit(c) <=>
                          \/ user = "q"
                          \/ /\ user \notin {"b", "c", "q"}
                             /\ result.cmd = "resume"
                             /\ result.arg[1] # "continue"
                /\ LoopExit(c) => Last(result.values.nlist) = "q"
                /\ user = "b" => Last(result.values.nlist) = "B" /\ ~LoopExit(c)
                /\ user = "c" => Last(result.values.nlist) = "C" /\ ~LoopExit(c)
                /\ result.cmd = "resume" => user \notin {"b", "c", "q"}

\* C39: the memory loop ends after an invoke exactly if the input was 'q',
\* the interrupt loop exactly if the input was 'q' or it was unexpected and
\* the human's answer was not 'continue'; the list returned then ends with
\* 'q'. For 'b' and 'c' the list ends with 'B' and 'C' and the loop goes on.
\* A loop that has ended sends nothing more.
C39_LoopExit ==
    /\ []LoopExits
    /\ [][\A c \in Clients(program) :
             IterationOver(c) /\ LoopExit(c) => active' # c /\ hist'[c] = hist[c]]_vars

C39_Witness ==
    /\ program = "interrupt"
    /\ active = 0
    /\ Len(hist[1]) = 3
    /\ hist[1][1].arg[1].nlist = <<"b">>
    /\ hist[1][2].arg[1].nlist = <<"x">>
    /\ hasInterrupt(hist[1][2])
    /\ hist[1][3].arg[1] = "stop"
    /\ LoopExit(1)

-----------------------------------------------------------------------------
(* Inputs no driver sends: the empty list *)

\* the graphs whose state is the list of strings nlist
ListPrograms == {"conditional", "memory", "interrupt"}

\* what a caller can pass: the one-element lists of the drivers and a state
\* whose nlist is empty
AnyInputs(p, c) == Inputs(p, c) \cup {[nlist |-> <<>>]}

\* Annotation<string[]>: every element of the value is a string
MatchesType(v) == \A i \in 1..Len(v) : v[i] # Undefined

\* a node of the step returned a value for nlist that is no list of strings
Mismatch ==
    \E i \in 1..Len(run.done) :
        /\ "nlist" \in DOMAIN run.done[i].out.update
        /\ ~MatchesType(run.done[i].out.update.nlist)

\* ReducerMismatchError: the value a node returned for a field does not
\* match the field's type; the error is fatal and nothing is merged
RejectUpdate ==
    /\ active # 0
    /\ run.pending = {} /\ run.done # <<>>
    /\ Interrupts(run.done) = <<>>
    /\ Mismatch
    /\ hist' = [hist EXCEPT ![active] =
                   Append(@, [cmd |-> run.cmd, arg |-> run.arg, kind |-> "error",
                              values |-> None,
                              payload |-> <<[error |-> "ReducerMismatchError",
                                             thread |-> run.tid, step |-> run.step]>>])]
    /\ status' = [status EXCEPT ![run.tid] = "Idle"]
    /\ active' = 0
    /\ run' = NoRun
    /\ UNCHANGED <<program, store, trace, nextId>>

InputInit ==
    /\ program \in ListPrograms
    /\ store = [t \in ThreadIds(program) |-> <<>>]
    /\ status = [t \in ThreadIds(program) |-> "Idle"]
    /\ active = 0
    /\ run = NoRun
    /\ trace = [t \in ThreadIds(program) |-> <<>>]
    /\ hist = [c \in Clients(program) |-> <<>>]
    /\ nextId = 1

\* one caller invokes a graph with any input; the engine checks what the
\* nodes return before it merges
InputNext ==
    \/ \E input \in AnyInputs(program, 1) : Invoke(1, input)
    \/ \E human \in HumanAnswers : ResumeInterrupt(1, human)
    \/ \E n \in run.pending : RunNode(n)
    \/ ~Mismatch /\ CommitStep
    \/ ~Mismatch /\ Complete
    \/ Pause
    \/ RejectUpdate

InputSpec == InputInit /\ [][InputNext]_vars

\* the lists held in the checkpoints of the threads, in the snapshot of the
\* run in progress and in the results returned
SnapshotLists ==
    UNION {{store[t][k].values.nlist : k \in 1..Len(store[t])} : t \in ThreadIds(program)}
    \cup UNION {{hist[c][k].values.nlist :
                    k \in {j \in 1..Len(hist[c]) : hist[c][j].kind # "error"}} :
                c \in Clients(program)}
    \cup (IF active # 0 THEN {run.snap.nlist} ELSE {})

\* C40: on the conditional, memory and interrupt graphs, for every input,
\* the empty list included, every element of nlist in every snapshot is a
\* string and node a returns no update that holds an undefined element.
C40_NlistHoldsStrings ==
    program \in ListPrograms =>
        /\ \A l \in SnapshotLists : MatchesType(l)
        /\ active # 0 =>
              \A i \in 1..Len(run.done) :
                  run.done[i].node = "a" /\ "nlist" \in DOMAIN run.done[i].out.update =>
                      MatchesType(run.done[i].out.update.nlist)

====
